---- MODULE Spec2Model ----
(***************************************************************************)
(* habemus/virtual-fs: sandboxed access to a subtree of a filesystem.      *)
(*                                                                         *)
(* A string is a sequence of one-character strings, so that the textual    *)
(* helpers of the source (startsWith, split, the slash regular             *)
(* expressions) are computed character by character.  A real path is the   *)
(* sequence of its segments below "/".                                     *)
(***************************************************************************)
EXTENDS Integers, Sequences, FiniteSets, TLC

(***************************************************************************)
(* Strings                                                                 *)
(***************************************************************************)
SLASH == "/"

DOT == "."

EmptyStr == << >>

StartsWith(s, t) ==
  /\ Len(t) <= Len(s)
  /\ \A i \in 1..Len(t) : s[i] = t[i]

RECURSIVE SplitFrom(_, _, _, _)
SplitFrom(s, i, cur, acc) ==
  IF i > Len(s) THEN Append(acc, cur)
  ELSE IF s[i] = SLASH THEN SplitFrom(s, i + 1, EmptyStr, Append(acc, cur))
  ELSE SplitFrom(s, i + 1, Append(cur, s[i]), acc)

\* String.prototype.split('/')
Split(s) == SplitFrom(s, 1, EmptyStr, << >>)

RECURSIVE JoinSegs(_)
\* segments joined with '/', no leading slash
JoinSegs(segs) ==
  IF segs = << >> THEN EmptyStr
  ELSE IF Len(segs) = 1 THEN segs[1]
  ELSE segs[1] \o <<SLASH>> \o JoinSegs(Tail(segs))

(***************************************************************************)
(* auxiliary.js                                                            *)
(***************************************************************************)
trimTrailing(p) ==
  IF Len(p) > 0 /\ p[Len(p)] = SLASH THEN SubSeq(p, 1, Len(p) - 1) ELSE p

ensureStartingFwSlashNoop(path) == path

ensureStartingFwSlash(path) ==
  IF Len(path) > 0 /\ path[1] = SLASH THEN path ELSE <<SLASH>> \o path

(***************************************************************************)
(* The real tree.  Root is the directory the instance was built on; "o"    *)
(* is a directory next to it, outside the sandbox.                         *)
(***************************************************************************)
RootSegs == << <<"r">> >>

OutsideSegs == << <<"o">> >>

RootStr == <<SLASH>> \o JoinSegs(RootSegs)

IsPrefixSegs(a, b) ==
  /\ Len(a) <= Len(b)
  /\ \A i \in 1..Len(a) : a[i] = b[i]

\* b lies strictly below a
StrictlyUnder(b, a) == IsPrefixSegs(a, b) /\ Len(b) > Len(a)

UnderRoot(rp) == IsPrefixSegs(RootSegs, rp)

RECURSIVE NormSegs(_, _)
\* path.normalize on the segments of an absolute path
NormSegs(segs, acc) ==
  IF segs = << >> THEN acc
  ELSE LET h == Head(segs) IN
       IF h = EmptyStr \/ h = <<DOT>> THEN NormSegs(Tail(segs), acc)
       ELSE IF h = <<DOT, DOT>>
            THEN NormSegs(Tail(segs),
                          IF acc = << >> THEN acc ELSE SubSeq(acc, 1, Len(acc) - 1))
       ELSE NormSegs(Tail(segs), Append(acc, h))

\* path.join(root, p)
JoinRoot(p) == NormSegs(Split(RootStr) \o Split(p), << >>)

\* path.dirname of a real path
Dirname(rp) == IF rp = << >> THEN rp ELSE SubSeq(rp, 1, Len(rp) - 1)

Basename(rp) == rp[Len(rp)]

(***************************************************************************)
(* Errors (errors.js) and delegate errors, as one record shape             *)
(***************************************************************************)
NoErr == [name |-> "", code |-> "", option |-> "", kind |-> "", path |-> EmptyStr]

InvalidOption(option, kind) == [NoErr EXCEPT !.name = "InvalidOption", !.option = option, !.kind = kind]

PathExists(path) == [NoErr EXCEPT !.name = "PathExists", !.path = path]

PathDoesNotExist(path) == [NoErr EXCEPT !.name = "PathDoesNotExist", !.path = path]

PathIsDirectory(path) == [NoErr EXCEPT !.name = "PathIsDirectory", !.path = path]

PathIsNotDirectory(path) == [NoErr EXCEPT !.name = "PathIsNotDirectory", !.path = path]

IllegalPath(path) == [NoErr EXCEPT !.name = "IllegalPath", !.path = path]

\* an error of node's fs module, identified by its code
FsError(code) == [NoErr EXCEPT !.name = "Error", !.code = code]

(***************************************************************************)
(* PathSandbox: root-path-builder's prependTo / vroot's path building.     *)
(* The joined path is normalized and must lie strictly below Root.         *)
(***************************************************************************)
prependToUnchecked(p) == [ok |-> TRUE, full |-> JoinRoot(p), err |-> NoErr]

prependTo(p) ==
  LET full == JoinRoot(p) IN
  IF StrictlyUnder(full, RootSegs)
  THEN [ok |-> TRUE, full |-> full, err |-> NoErr]
  ELSE [ok |-> FALSE, full |-> << >>, err |-> IllegalPath(p)]

\* root.value()
rootValue == RootSegs

(***************************************************************************)
(* The filesystem and the I/O delegates (node's fs, mkdirp, cpr, rimraf).  *)
(* A tree is a function from the real paths that exist to their node.      *)
(* Every delegate returns the tree it leaves and the raw changes it made,  *)
(* in the vocabulary of the tree watcher (add, change, unlink, addDir,     *)
(* unlinkDir).                                                             *)
(***************************************************************************)
DirNode == [kind |-> "dir", data |-> ""]

FileNode(data) == [kind |-> "file", data |-> data]

Exists(f, rp) == rp \in DOMAIN f

IsDir(f, rp) == Exists(f, rp) /\ f[rp].kind = "dir"

IsFile(f, rp) == Exists(f, rp) /\ f[rp].kind = "file"

Prefixes(rp) == { SubSeq(rp, 1, i) : i \in 0..Len(rp) }

AncestorIsFile(f, rp) == \E a \in Prefixes(rp) \ {rp} : IsFile(f, a)

\* the code of the error a missing path gives
MissingCode(f, rp) == IF AncestorIsFile(f, rp) THEN "ENOTDIR" ELSE "ENOENT"

Subtree(f, rp) == { n \in DOMAIN f : IsPrefixSegs(rp, n) }

Children(f, rp) == { n \in DOMAIN f : Len(n) = Len(rp) + 1 /\ IsPrefixSegs(rp, n) }

RECURSIVE ByDepth(_)
\* the paths of a set, the shallowest first
ByDepth(S) ==
  IF S = {} THEN << >>
  ELSE LET x == CHOOSE y \in S : \A z \in S : Len(y) <= Len(z)
       IN <<x>> \o ByDepth(S \ {x})

Reverse(q) == [i \in 1..Len(q) |-> q[Len(q) + 1 - i]]

Raw(ev, rp) == [ev |-> ev, path |-> rp]

AddEv(node) == IF node.kind = "dir" THEN "addDir" ELSE "add"

UnlinkEv(node) == IF node.kind = "dir" THEN "unlinkDir" ELSE "unlink"

IoRes == [err |-> NoErr, fs |-> << >>, kind |-> "", data |-> "", list |-> << >>, raw |-> << >>]

IoFail(f, code) == [IoRes EXCEPT !.err = FsError(code), !.fs = f]

\* fs.stat
FsStat(f, rp) ==
  IF Exists(f, rp) THEN [IoRes EXCEPT !.fs = f, !.kind = f[rp].kind]
  ELSE IoFail(f, MissingCode(f, rp))

\* fs.readdir: the basenames of the children
FsReaddir(f, rp) ==
  IF ~Exists(f, rp) THEN IoFail(f, MissingCode(f, rp))
  ELSE IF IsFile(f, rp) THEN IoFail(f, "ENOTDIR")
  ELSE LET kids == ByDepth(Children(f, rp))
       IN [IoRes EXCEPT !.fs = f, !.list = [i \in 1..Len(kids) |-> Basename(kids[i])]]

\* fs.readFile
FsReadFile(f, rp) ==
  IF ~Exists(f, rp) THEN IoFail(f, MissingCode(f, rp))
  ELSE IF IsDir(f, rp) THEN IoFail(f, "EISDIR")
  ELSE [IoRes EXCEPT !.fs = f, !.data = f[rp].data]

\* fs.writeFile: creates or overwrites, never makes directories
FsWriteFile(f, rp, data) ==
  IF IsDir(f, rp) THEN IoFail(f, "EISDIR")
  ELSE IF IsFile(f, rp)
    THEN [IoRes EXCEPT !.fs = [f EXCEPT ![rp] = FileNode(data)],
                       !.raw = <<Raw("change", rp)>>]
  ELSE IF IsDir(f, Dirname(rp))
    THEN [IoRes EXCEPT !.fs = [n \in DOMAIN f \cup {rp} |->
                                 IF n = rp THEN FileNode(data) ELSE f[n]],
                       !.raw = <<Raw("add", rp)>>]
  ELSE IoFail(f, MissingCode(f, rp))

\* fs.mkdir: one level
FsMkdir(f, rp) ==
  IF Exists(f, rp) THEN IoFail(f, "EEXIST")
  ELSE IF IsDir(f, Dirname(rp))
    THEN [IoRes EXCEPT !.fs = [n \in DOMAIN f \cup {rp} |->
                                 IF n = rp THEN DirNode ELSE f[n]],
                       !.raw = <<Raw("addDir", rp)>>]
  ELSE IoFail(f, MissingCode(f, rp))

\* mkdirp: every missing level, nothing when the directory exists
Mkdirp(f, rp) ==
  IF IsFile(f, rp) THEN IoFail(f, "EEXIST")
  ELSE IF AncestorIsFile(f, rp) THEN IoFail(f, "ENOTDIR")
  ELSE LET made == ByDepth(Prefixes(rp) \ DOMAIN f)
       IN [IoRes EXCEPT !.fs = [n \in DOMAIN f \cup Prefixes(rp) |->
                                  IF n \in DOMAIN f THEN f[n] ELSE DirNode],
                        !.raw = [i \in 1..Len(made) |-> Raw("addDir", made[i])]]

\* the copy of node n of the tree below src, below dst
Moved(n, src, dst) == dst \o SubSeq(n, Len(src) + 1, Len(n))

\* cpr(from, to, {overwrite: false}): recursive copy, all or nothing;
\* the levels above `to` are made when missing
Cpr(f, src, dst) ==
  IF ~Exists(f, src) THEN IoFail(f, "")
  ELSE IF Exists(f, dst) THEN IoFail(f, "EEXIST")
  ELSE IF AncestorIsFile(f, dst) THEN IoFail(f, "ENOTDIR")
  ELSE LET from  == Subtree(f, src)
           above == Prefixes(Dirname(dst)) \ DOMAIN f
           to    == { Moved(n, src, dst) : n \in from }
           new   == ByDepth(above \cup to)
           node(m) == IF m \in to
                      THEN f[CHOOSE n \in from : Moved(n, src, dst) = m]
                      ELSE DirNode
       IN [IoRes EXCEPT !.fs = [m \in DOMAIN f \cup above \cup to |->
                                  IF m \in above \cup to THEN node(m) ELSE f[m]],
                        !.raw = [i \in 1..Len(new) |-> Raw(AddEv(node(new[i])), new[i])]]

\* rimraf: recursive delete, succeeds when there is nothing to delete
Rimraf(f, rp) ==
  LET gone == Reverse(ByDepth(Subtree(f, rp)))
  IN [IoRes EXCEPT !.fs = [n \in DOMAIN f \ Subtree(f, rp) |-> f[n]],
                   !.raw = [i \in 1..Len(gone) |-> Raw(UnlinkEv(f[gone[i]]), gone[i])]]

(***************************************************************************)
(* Inputs                                                                  *)
(***************************************************************************)
\* a missing argument (undefined); the only input that is not a string
UndefinedArg == <<"undefined">>

\* !x of JavaScript, for a path argument
Falsy(p) == p = EmptyStr \/ p = UndefinedArg

\* file contents: undefined, '' and one non-empty text
UndefinedContents == "undefined"

CreateContents == {UndefinedContents, "x"}

UpdateContents == {UndefinedContents, "", "x"}

TypeInputs == {"", "directory", "file", "other"}

PathInputs == {
  UndefinedArg,
  EmptyStr,
  <<"/">>,
  <<"/", "a">>,
  <<"a">>,
  <<"/", "a", "/">>,
  <<"/", "a", "/", "b">>,
  <<"/", "a", "b", "/", "b">>,
  <<".">>,
  <<".", ".", "/", "o">>,
  <<"/", "a", "/", ".", ".", "/", ".", ".", "/", "o">> }

\* the arguments of move: sources are '/a' and what is in it, destinations
\* lie in '/a', next to it below '/ab', or outside
MoveFromInputs == {
  EmptyStr,
  <<"/", "a">>,
  <<"a">>,
  <<"/", "a", "/">>,
  <<"/", "a", "/", "b">>,
  <<".", ".", "/", "o">> }

MoveToInputs == {
  EmptyStr,
  <<"/", "a">>,
  <<"/", "a", "/", "b">>,
  <<"a", "/", "b">>,
  <<"/", "a", "b", "/", "b">>,
  <<".", ".", "/", "o">>,
  <<"/", "a", "/", ".", ".", "/", ".", ".", "/", "o">> }

Slots == {"c1", "c2"}

\* how many chokidar watchers can be open at once
MaxWatchers == 2

WatcherIds == 1..MaxWatchers

\* no watcher, or a closed one
NoWatcher == [status |-> "none", attached |-> FALSE, resolved |-> FALSE, pending |-> << >>]

(***************************************************************************)
(* State                                                                   *)
(***************************************************************************)
VARIABLES
  fs,                \* the real tree
  calls,             \* per slot, the call of the API in flight
  published,         \* the events delivered to the subscribers, in order
  suppressFsEvents,  \* HFs.suppressFsEvents (index.js)
  _usingFsWatcher,   \* HFs._usingFsWatcher (index.js with fs-watching)
  watchers,          \* the chokidar watchers, open or not
  watcher,           \* HFs.watcher: the watcher created last, 0 when unset
  nops               \* number of the mutation under observation

vars == <<fs, calls, published, suppressFsEvents, _usingFsWatcher, watchers, watcher, nops>>

NoRes == [st |-> "none", err |-> NoErr, b |-> FALSE, kind |-> "", data |-> "", list |-> << >>]

Resolved == [NoRes EXCEPT !.st = "ok"]

Rejected(err) == [NoRes EXCEPT !.st = "err", !.err = err]

IdleCall ==
  [op |-> "", pc |-> "idle", id |-> 0, step |-> 0,
   arg |-> EmptyStr, arg2 |-> EmptyStr,
   path |-> EmptyStr, toPath |-> EmptyStr, contents |-> "", type |-> "",
   kind |-> "", full |-> << >>, fullTo |-> << >>,
   ios |-> << >>, order |-> << >>, handed |-> {}, raw |-> << >>,
   res |-> NoRes, wa |-> FALSE, fs0 |-> << >>]

\* a request to a delegate: its name and arguments, then its outcome
Req(fn, a, b, data) ==
  [fn |-> fn, a |-> a, b |-> b, data |-> data, done |-> FALSE,
   err |-> NoErr, kind |-> "", out |-> "", list |-> << >>]

ReqPaths(reqs) ==
  { reqs[i].a : i \in 1..Len(reqs) } \cup
  { reqs[i].b : i \in { j \in 1..Len(reqs) : reqs[j].fn = "cpr" } }

\* the call waits for the delegates it has started
Submit(cl, reqs) ==
  [cl EXCEPT !.pc = "io", !.step = @ + 1, !.ios = reqs, !.order = << >>,
             !.handed = @ \cup ReqPaths(reqs)]

\* the promise of the call settles
Settle(cl, res) ==
  [cl EXCEPT !.pc = "done", !.res = res, !.ios = << >>, !.order = << >>]

Free(c) == calls[c].pc = "idle"

NewCall(op, arg, arg2, contents, type) ==
  [IdleCall EXCEPT !.op = op, !.id = nops', !.arg = arg, !.arg2 = arg2,
                   !.contents = contents, !.type = type, !.fs0 = fs]

AllDone(cl) == \A i \in 1..Len(cl.ios) : cl.ios[i].done

\* Init: trees the program can be started on
Tree0 == [n \in {<< >>, RootSegs, OutsideSegs} |-> DirNode]

TreeWith(nodes) ==
  [n \in DOMAIN Tree0 \cup DOMAIN nodes |-> IF n \in DOMAIN nodes THEN nodes[n] ELSE Tree0[n]]

R(segs) == RootSegs \o segs

InitTrees == {
  Tree0,
  TreeWith((R(<< <<"a">> >>) :> FileNode("x"))),
  TreeWith((R(<< <<"a">> >>) :> DirNode) @@ (R(<< <<"a">>, <<"b">> >>) :> FileNode("x"))) }

Init ==
  /\ fs \in InitTrees
  /\ calls = [c \in Slots |-> IdleCall]
  /\ published = << >>
  /\ suppressFsEvents \in BOOLEAN
  /\ _usingFsWatcher = FALSE
  /\ watchers = [w \in WatcherIds |-> NoWatcher]
  /\ watcher = 0
  /\ nops = 0

(***************************************************************************)
(* Delegates at work                                                       *)
(***************************************************************************)
Delegate(f, q) ==
  CASE q.fn = "stat"      -> FsStat(f, q.a)
    [] q.fn = "readdir"   -> FsReaddir(f, q.a)
    [] q.fn = "readFile"  -> FsReadFile(f, q.a)
    [] q.fn = "writeFile" -> FsWriteFile(f, q.a, q.data)
    [] q.fn = "mkdir"     -> FsMkdir(f, q.a)
    [] q.fn = "mkdirp"    -> Mkdirp(f, q.a)
    [] q.fn = "cpr"       -> Cpr(f, q.a, q.b)
    [] q.fn = "rimraf"    -> Rimraf(f, q.a)

\* every open watcher sees the raw changes of mutation `id`
Notify(ws, raw, id) ==
  [w \in DOMAIN ws |->
     IF ws[w].status = "none" THEN ws[w]
     ELSE [ws[w] EXCEPT !.pending = @ \o [i \in 1..Len(raw) |-> [ev |-> raw[i].ev, path |-> raw[i].path, id |-> id]]]]

\* a delegate started by call c takes effect and completes
FsIo(c, i) ==
  /\ calls[c].pc = "io"
  /\ i \in 1..Len(calls[c].ios)
  /\ ~calls[c].ios[i].done
  /\ LET q == calls[c].ios[i]
         r == Delegate(fs, q)
     IN /\ fs' = r.fs
        /\ calls' = [calls EXCEPT ![c].ios[i] =
                       [q EXCEPT !.done = TRUE, !.err = r.err, !.kind = r.kind,
                                 !.out = r.data, !.list = r.list],
                     ![c].order = Append(@, i),
                     ![c].raw = @ \o r.raw]
        /\ watchers' = Notify(watchers, r.raw, calls[c].id)
  /\ UNCHANGED <<published, suppressFsEvents, _usingFsWatcher, watcher, nops>>

(***************************************************************************)
(* EventBus                                                                *)
(***************************************************************************)
\* an event as a subscriber gets it: its type and its only field, path.
\* src, id and node record who published it and which change of which
\* node of mutation `id` it reports.
Event(type, path, src, id, node) ==
  [type |-> type, path |-> path, src |-> src, id |-> id, node |-> node]

\* HFs.prototype.publishFsEvent: the log after the call
publishFsEventAlways(log, eventName, path, id) ==
  Append(log, Event(eventName, path, "engine", id, JoinRoot(path)))

publishFsEvent(log, eventName, path, id) ==
  IF suppressFsEvents THEN log
  ELSE Append(log, Event(eventName, path, "engine", id, JoinRoot(path)))

(***************************************************************************)
(* OperationEngine: index.js on root-path-builder                          *)
(***************************************************************************)
\* _isPathWithin(path, potentialParent)
_isPathWithin(path, potentialParent) ==
  /\ StartsWith(path, potentialParent)
  /\ Len(Split(path)) > Len(Split(potentialParent))

\* the first delegate, in order of completion, whose outcome rejects
\* Bluebird.all; rejecting is the set of the requests whose outcome does
FirstRejecting(cl, rejecting) ==
  LET bad == { k \in 1..Len(cl.order) : cl.order[k] \in rejecting }
  IN IF bad = {} THEN 0
     ELSE cl.order[CHOOSE k \in bad : \A m \in bad : k <= m]

\* stat without the sandbox: the path is joined to Root and handed on
CallStatUnchecked(c, path) ==
  /\ Free(c)
  /\ calls' = [calls EXCEPT ![c] =
       Submit([NewCall("stat", path, EmptyStr, "", "") EXCEPT !.path = path],
              <<Req("stat", JoinRoot(path), << >>, "")>>)]
  /\ UNCHANGED <<fs, suppressFsEvents, _usingFsWatcher, watchers, watcher>>

\* HFs.prototype.stat(path)
CallStat(c, path) ==
  /\ Free(c)
  /\ LET cl == [NewCall("stat", path, EmptyStr, "", "") EXCEPT !.path = path]
         p  == prependTo(path)
     IN calls' = [calls EXCEPT ![c] =
          IF ~p.ok THEN Settle(cl, Rejected(p.err))
          ELSE Submit(cl, <<Req("stat", p.full, << >>, "")>>)]
  /\ UNCHANGED <<fs, suppressFsEvents, _usingFsWatcher, watchers, watcher>>

\* a stat that reports its visit to the subscribers
ThenStatLoud(c) ==
  /\ calls[c].op = "stat" /\ calls[c].pc = "io" /\ AllDone(calls[c])
  /\ LET q == calls[c].ios[1]
     IN calls' = [calls EXCEPT ![c] =
          IF q.err # NoErr THEN Settle(@, Rejected(q.err))
          ELSE Settle(@, [Resolved EXCEPT !.kind = q.kind])]
  /\ published' = publishFsEvent(published, "file-updated", calls[c].path, calls[c].id)
  /\ UNCHANGED <<fs, suppressFsEvents, _usingFsWatcher, watchers, watcher, nops>>

ThenStat(c) ==
  /\ calls[c].op = "stat" /\ calls[c].pc = "io" /\ AllDone(calls[c])
  /\ LET q == calls[c].ios[1]
     IN calls' = [calls EXCEPT ![c] =
          IF q.err # NoErr THEN Settle(@, Rejected(q.err))
          ELSE Settle(@, [Resolved EXCEPT !.kind = q.kind])]
  /\ UNCHANGED <<fs, published, suppressFsEvents, _usingFsWatcher, watchers, watcher, nops>>

\* HFs.prototype.pathExists(path, type)
CallPathExists(c, path, type) ==
  /\ Free(c)
  /\ LET cl == [NewCall("pathExists", path, EmptyStr, "", type) EXCEPT !.path = path]
         p  == prependTo(path)
     IN calls' = [calls EXCEPT ![c] =
          IF Falsy(path) THEN Settle(cl, Rejected(InvalidOption("path", "required")))
          ELSE IF ~p.ok THEN Settle(cl, Rejected(p.err))
          ELSE Submit(cl, <<Req("stat", p.full, << >>, "")>>)]
  /\ UNCHANGED <<fs, suppressFsEvents, _usingFsWatcher, watchers, watcher>>

\* a pathExists that finds nothing anywhere
ExistsOutcomeNever(q, type) == [Resolved EXCEPT !.b = FALSE]

\* what pathExists makes of a completed stat: a boolean or a rejection
ExistsOutcome(q, type) ==
  IF q.err = NoErr
  THEN [Resolved EXCEPT !.b = IF type = "" THEN TRUE
                              ELSE IF type = "directory" THEN q.kind = "dir"
                              ELSE IF type = "file" THEN q.kind = "file"
                              ELSE FALSE]
  ELSE IF q.err.code = "ENOENT" THEN [Resolved EXCEPT !.b = FALSE]
  ELSE Rejected(q.err)

ThenPathExists(c) ==
  /\ calls[c].op = "pathExists" /\ calls[c].pc = "io" /\ AllDone(calls[c])
  /\ calls' = [calls EXCEPT ![c] = Settle(@, ExistsOutcome(@.ios[1], @.type))]
  /\ UNCHANGED <<fs, published, suppressFsEvents, _usingFsWatcher, watchers, watcher, nops>>

\* a catch that takes every error for a missing path
CatchAll(err, path) == Rejected(PathDoesNotExist(path))

\* the rejection of move's and remove's final catch
CatchENOENT(err, path) ==
  IF err.code = "ENOENT" THEN Rejected(PathDoesNotExist(path)) ELSE Rejected(err)

\* a remove that takes its path as it comes
CallRemoveUnvalidated(c, path0) ==
  /\ Free(c)
  /\ LET path == ensureStartingFwSlash(path0)
         cl   == [NewCall("remove", path0, EmptyStr, "", "") EXCEPT !.path = path]
         p    == prependTo(path)
     IN calls' = [calls EXCEPT ![c] =
          IF ~p.ok THEN Settle(cl, CatchENOENT(p.err, path))
          ELSE Submit(cl, <<Req("stat", p.full, << >>, "")>>)]
  /\ UNCHANGED <<fs, suppressFsEvents, _usingFsWatcher, watchers, watcher>>

\* HFs.prototype.remove(path)
CallRemove(c, path0) ==
  /\ Free(c)
  /\ LET path == ensureStartingFwSlash(path0)
         cl   == [NewCall("remove", path0, EmptyStr, "", "") EXCEPT !.path = path]
         p    == prependTo(path)
     IN calls' = [calls EXCEPT ![c] =
          IF Falsy(path0) THEN Settle(cl, Rejected(InvalidOption("path", "required")))
          ELSE IF ~p.ok THEN Settle(cl, CatchENOENT(p.err, path))
          ELSE Submit(cl, <<Req("stat", p.full, << >>, "")>>)]
  /\ UNCHANGED <<fs, suppressFsEvents, _usingFsWatcher, watchers, watcher>>

\* a remove that forgets the kind its stat found
ThenRemoveAnyKind(c) ==
  /\ calls[c].op = "remove" /\ calls[c].pc = "io" /\ AllDone(calls[c])
  /\ LET cl == calls[c]
         q  == cl.ios[1]
         p  == prependTo(cl.path)
     IN IF q.err # NoErr
        THEN /\ calls' = [calls EXCEPT ![c] = Settle(cl, CatchENOENT(q.err, cl.path))]
             /\ UNCHANGED published
        ELSE IF cl.step = 1
        THEN /\ calls' = [calls EXCEPT ![c] =
                  IF ~p.ok THEN Settle(cl, CatchENOENT(p.err, cl.path))
                  ELSE Submit(cl, <<Req("rimraf", p.full, << >>, "")>>)]
             /\ UNCHANGED published
        ELSE /\ published' = publishFsEvent(published, "file-removed", cl.path, cl.id)
             /\ calls' = [calls EXCEPT ![c] = Settle(cl, Resolved)]
  /\ UNCHANGED <<fs, suppressFsEvents, _usingFsWatcher, watchers, watcher, nops>>

ThenRemove(c) ==
  /\ calls[c].op = "remove" /\ calls[c].pc = "io" /\ AllDone(calls[c])
  /\ LET cl == calls[c]
         q  == cl.ios[1]
         p  == prependTo(cl.path)
     IN IF q.err # NoErr
        THEN /\ calls' = [calls EXCEPT ![c] = Settle(cl, CatchENOENT(q.err, cl.path))]
             /\ UNCHANGED published
        ELSE IF cl.step = 1
        THEN /\ calls' = [calls EXCEPT ![c] =
                  IF ~p.ok THEN Settle(cl, CatchENOENT(p.err, cl.path))
                  ELSE Submit([cl EXCEPT !.kind = IF q.kind = "dir" THEN "directory" ELSE "file"],
                              <<Req("rimraf", p.full, << >>, "")>>)]
             /\ UNCHANGED published
        ELSE /\ published' = publishFsEvent(published,
                  IF cl.kind = "directory" THEN "directory-removed" ELSE "file-removed",
                  cl.path, cl.id)
             /\ calls' = [calls EXCEPT ![c] = Settle(cl, Resolved)]
  /\ UNCHANGED <<fs, suppressFsEvents, _usingFsWatcher, watchers, watcher, nops>>

\* HFs.prototype.move(fromPath, toPath)
CallMove(c, from0, to0) ==
  /\ Free(c)
  /\ LET fromPath == ensureStartingFwSlash(from0)
         toPath   == ensureStartingFwSlash(to0)
         cl == [NewCall("move", from0, to0, "", "") EXCEPT !.path = fromPath, !.toPath = toPath]
         pf == prependTo(fromPath)
         pt == prependTo(toPath)
     IN calls' = [calls EXCEPT ![c] =
          IF Falsy(from0) THEN Settle(cl, Rejected(InvalidOption("fromPath", "required")))
          ELSE IF Falsy(to0) THEN Settle(cl, Rejected(InvalidOption("toPath", "required")))
          ELSE IF _isPathWithin(toPath, fromPath)
               THEN Settle(cl, Rejected(InvalidOption("toPath", "invalidPath")))
          ELSE IF ~pf.ok THEN Settle(cl, Rejected(pf.err))
          ELSE IF ~pt.ok THEN Settle(cl, Rejected(pt.err))
          ELSE Submit([cl EXCEPT !.full = pf.full, !.fullTo = pt.full],
                      <<Req("stat", pf.full, << >>, ""), Req("stat", pt.full, << >>, "")>>)]
  /\ UNCHANGED <<fs, suppressFsEvents, _usingFsWatcher, watchers, watcher>>

\* in Bluebird.all([stat(fromPath), pathExists(toPath)]): request 1 rejects on
\* any error, request 2 on any error but ENOENT
MoveProbeRejects(cl, i) ==
  /\ cl.ios[i].err # NoErr
  /\ i = 2 => cl.ios[i].err.code # "ENOENT"

\* a move that deletes fromPath whatever the outcome of the copy
ThenMoveEager(c) ==
  /\ calls[c].op = "move" /\ calls[c].pc = "io"
  /\ LET cl  == calls[c]
         rej == FirstRejecting(cl, { i \in 1..Len(cl.ios) : MoveProbeRejects(cl, i) })
         created == IF cl.kind = "directory" THEN "directory-created" ELSE "file-created"
         removed == IF cl.kind = "directory" THEN "directory-removed" ELSE "file-removed"
     IN IF cl.step = 1
        THEN /\ rej # 0 \/ AllDone(cl)
             /\ calls' = [calls EXCEPT ![c] =
                  IF rej # 0 THEN Settle(cl, CatchENOENT(cl.ios[rej].err, cl.path))
                  ELSE IF cl.ios[2].err = NoErr THEN Settle(cl, Rejected(PathExists(cl.toPath)))
                  ELSE Submit([cl EXCEPT !.kind = IF cl.ios[1].kind = "dir" THEN "directory" ELSE "file"],
                              <<Req("cpr", cl.full, cl.fullTo, "")>>)]
             /\ UNCHANGED published
        ELSE /\ AllDone(cl)
             /\ IF cl.ios[1].err # NoErr /\ cl.step # 2
                THEN /\ calls' = [calls EXCEPT ![c] = Settle(cl, CatchENOENT(cl.ios[1].err, cl.path))]
                     /\ UNCHANGED published
                ELSE IF cl.step = 2
                THEN /\ published' = publishFsEvent(published, created, cl.toPath, cl.id)
                     /\ calls' = [calls EXCEPT ![c] = Submit(cl, <<Req("rimraf", cl.full, << >>, "")>>)]
                ELSE /\ published' = publishFsEvent(published, removed, cl.path, cl.id)
                     /\ calls' = [calls EXCEPT ![c] = Settle(cl, Resolved)]
  /\ UNCHANGED <<fs, suppressFsEvents, _usingFsWatcher, watchers, watcher, nops>>

ThenMove(c) ==
  /\ calls[c].op = "move" /\ calls[c].pc = "io"
  /\ LET cl  == calls[c]
         rej == FirstRejecting(cl, { i \in 1..Len(cl.ios) : MoveProbeRejects(cl, i) })
         created == IF cl.kind = "directory" THEN "directory-created" ELSE "file-created"
         removed == IF cl.kind = "directory" THEN "directory-removed" ELSE "file-removed"
     IN IF cl.step = 1
        THEN /\ rej # 0 \/ AllDone(cl)
             /\ calls' = [calls EXCEPT ![c] =
                  IF rej # 0 THEN Settle(cl, CatchENOENT(cl.ios[rej].err, cl.path))
                  ELSE IF cl.ios[2].err = NoErr THEN Settle(cl, Rejected(PathExists(cl.toPath)))
                  ELSE Submit([cl EXCEPT !.kind = IF cl.ios[1].kind = "dir" THEN "directory" ELSE "file"],
                              <<Req("cpr", cl.full, cl.fullTo, "")>>)]
             /\ UNCHANGED published
        ELSE /\ AllDone(cl)
             /\ IF cl.ios[1].err # NoErr
                THEN /\ calls' = [calls EXCEPT ![c] = Settle(cl, CatchENOENT(cl.ios[1].err, cl.path))]
                     /\ UNCHANGED published
                ELSE IF cl.step = 2
                THEN /\ published' = publishFsEvent(published, created, cl.toPath, cl.id)
                     /\ calls' = [calls EXCEPT ![c] = Submit(cl, <<Req("rimraf", cl.full, << >>, "")>>)]
                ELSE /\ published' = publishFsEvent(published, removed, cl.path, cl.id)
                     /\ calls' = [calls EXCEPT ![c] = Settle(cl, Resolved)]
  /\ UNCHANGED <<fs, suppressFsEvents, _usingFsWatcher, watchers, watcher, nops>>

(***************************************************************************)
(* OperationEngine: file.js on root-path-builder                           *)
(***************************************************************************)
\* exports.createFile(filepath, contents)
CallCreateFile(c, filepath0, contents0) ==
  /\ Free(c)
  /\ LET filepath == ensureStartingFwSlash(filepath0)
         contents == IF contents0 = UndefinedContents THEN "" ELSE contents0
         cl == [NewCall("createFile", filepath0, EmptyStr, contents, "") EXCEPT !.path = filepath]
         p  == prependTo(filepath)
     IN calls' = [calls EXCEPT ![c] =
          IF Falsy(filepath0) THEN Settle(cl, Rejected(InvalidOption("filepath", "required")))
          ELSE IF ~p.ok THEN Settle(cl, Rejected(p.err))
          ELSE Submit(cl, <<Req("stat", p.full, << >>, "")>>)]
  /\ UNCHANGED <<fs, suppressFsEvents, _usingFsWatcher, watchers, watcher>>

\* a createFile that announces the file when it starts the write
ThenCreateFileEarly(c) ==
  /\ calls[c].op = "createFile" /\ calls[c].pc = "io" /\ AllDone(calls[c])
  /\ LET cl == calls[c]
         q  == cl.ios[1]
         ex == ExistsOutcome(q, "")
         p  == prependTo(cl.path)
     IN IF cl.step = 1
        THEN /\ calls' = [calls EXCEPT ![c] =
                  IF ex.st = "err" THEN Settle(cl, ex)
                  ELSE IF ex.b THEN Settle(cl, Rejected(PathExists(cl.path)))
                  ELSE IF ~p.ok THEN Settle(cl, Rejected(p.err))
                  ELSE Submit([cl EXCEPT !.full = p.full],
                              <<Req("mkdirp", Dirname(p.full), << >>, "")>>)]
             /\ UNCHANGED published
        ELSE IF q.err # NoErr
        THEN /\ calls' = [calls EXCEPT ![c] = Settle(cl, Rejected(q.err))]
             /\ UNCHANGED published
        ELSE IF cl.step = 2
        THEN /\ published' = publishFsEvent(published, "file-created", cl.path, cl.id)
             /\ calls' = [calls EXCEPT ![c] =
                  Submit(cl, <<Req("writeFile", cl.full, << >>, cl.contents)>>)]
        ELSE /\ calls' = [calls EXCEPT ![c] = Settle(cl, Resolved)]
             /\ UNCHANGED published
  /\ UNCHANGED <<fs, suppressFsEvents, _usingFsWatcher, watchers, watcher, nops>>

ThenCreateFile(c) ==
  /\ calls[c].op = "createFile" /\ calls[c].pc = "io" /\ AllDone(calls[c])
  /\ LET cl == calls[c]
         q  == cl.ios[1]
         ex == ExistsOutcome(q, "")
         p  == prependTo(cl.path)
     IN IF cl.step = 1
        THEN /\ calls' = [calls EXCEPT ![c] =
                  IF ex.st = "err" THEN Settle(cl, ex)
                  ELSE IF ex.b THEN Settle(cl, Rejected(PathExists(cl.path)))
                  ELSE IF ~p.ok THEN Settle(cl, Rejected(p.err))
                  ELSE Submit([cl EXCEPT !.full = p.full],
                              <<Req("mkdirp", Dirname(p.full), << >>, "")>>)]
             /\ UNCHANGED published
        ELSE IF q.err # NoErr
        THEN /\ calls' = [calls EXCEPT ![c] = Settle(cl, Rejected(q.err))]
             /\ UNCHANGED published
        ELSE IF cl.step = 2
        THEN /\ calls' = [calls EXCEPT ![c] =
                  Submit(cl, <<Req("writeFile", cl.full, << >>, cl.contents)>>)]
             /\ UNCHANGED published
        ELSE /\ published' = publishFsEvent(published, "file-created", cl.path, cl.id)
             /\ calls' = [calls EXCEPT ![c] = Settle(cl, Resolved)]
  /\ UNCHANGED <<fs, suppressFsEvents, _usingFsWatcher, watchers, watcher, nops>>

\* a catch that takes every error but EISDIR for a missing path
CatchReadAny(err, filepath) ==
  IF err.code = "EISDIR" THEN Rejected(PathIsDirectory(filepath))
  ELSE Rejected(PathDoesNotExist(filepath))

\* the rejection of readFile's catch
CatchRead(err, filepath) ==
  IF err.code = "ENOENT" THEN Rejected(PathDoesNotExist(filepath))
  ELSE IF err.code = "EISDIR" THEN Rejected(PathIsDirectory(filepath))
  ELSE Rejected(err)

\* exports.readFile(filepath)
CallReadFile(c, filepath0) ==
  /\ Free(c)
  /\ LET filepath == ensureStartingFwSlash(filepath0)
         cl == [NewCall("readFile", filepath0, EmptyStr, "", "") EXCEPT !.path = filepath]
         p  == prependTo(filepath)
     IN calls' = [calls EXCEPT ![c] =
          IF Falsy(filepath0) THEN Settle(cl, Rejected(InvalidOption("filepath", "required")))
          ELSE IF ~p.ok THEN Settle(cl, CatchRead(p.err, filepath))
          ELSE Submit(cl, <<Req("readFile", p.full, << >>, "")>>)]
  /\ UNCHANGED <<fs, suppressFsEvents, _usingFsWatcher, watchers, watcher>>

\* a readFile that resolves with no contents
ThenReadFileBlank(c) ==
  /\ calls[c].op = "readFile" /\ calls[c].pc = "io" /\ AllDone(calls[c])
  /\ LET cl == calls[c]
         q  == cl.ios[1]
     IN calls' = [calls EXCEPT ![c] =
          IF q.err # NoErr THEN Settle(cl, CatchRead(q.err, cl.path))
          ELSE Settle(cl, Resolved)]
  /\ UNCHANGED <<fs, published, suppressFsEvents, _usingFsWatcher, watchers, watcher, nops>>

ThenReadFile(c) ==
  /\ calls[c].op = "readFile" /\ calls[c].pc = "io" /\ AllDone(calls[c])
  /\ LET cl == calls[c]
         q  == cl.ios[1]
     IN calls' = [calls EXCEPT ![c] =
          IF q.err # NoErr THEN Settle(cl, CatchRead(q.err, cl.path))
          ELSE Settle(cl, [Resolved EXCEPT !.data = q.out])]
  /\ UNCHANGED <<fs, published, suppressFsEvents, _usingFsWatcher, watchers, watcher, nops>>

\* an updateFile that takes empty contents for missing ones
CallUpdateFileFalsy(c, filepath0, contents) ==
  /\ Free(c)
  /\ LET filepath == ensureStartingFwSlash(filepath0)
         cl == [NewCall("updateFile", filepath0, EmptyStr, contents, "") EXCEPT !.path = filepath]
         p  == prependTo(filepath)
     IN calls' = [calls EXCEPT ![c] =
          IF Falsy(filepath0) THEN Settle(cl, Rejected(InvalidOption("filepath", "required")))
          ELSE IF contents = UndefinedContents \/ contents = ""
               THEN Settle(cl, Rejected(InvalidOption("contents", "required")))
          ELSE IF ~p.ok THEN Settle(cl, CatchENOENT(p.err, filepath))
          ELSE Submit(cl, <<Req("stat", p.full, << >>, "")>>)]
  /\ UNCHANGED <<fs, suppressFsEvents, _usingFsWatcher, watchers, watcher>>

\* exports.updateFile(filepath, contents)
CallUpdateFile(c, filepath0, contents) ==
  /\ Free(c)
  /\ LET filepath == ensureStartingFwSlash(filepath0)
         cl == [NewCall("updateFile", filepath0, EmptyStr, contents, "") EXCEPT !.path = filepath]
         p  == prependTo(filepath)
     IN calls' = [calls EXCEPT ![c] =
          IF Falsy(filepath0) THEN Settle(cl, Rejected(InvalidOption("filepath", "required")))
          ELSE IF contents = UndefinedContents
               THEN Settle(cl, Rejected(InvalidOption("contents", "required")))
          ELSE IF ~p.ok THEN Settle(cl, CatchENOENT(p.err, filepath))
          ELSE Submit(cl, <<Req("stat", p.full, << >>, "")>>)]
  /\ UNCHANGED <<fs, suppressFsEvents, _usingFsWatcher, watchers, watcher>>

\* an updateFile that writes without looking at what stat found
ThenUpdateFileBlind(c) ==
  /\ calls[c].op = "updateFile" /\ calls[c].pc = "io" /\ AllDone(calls[c])
  /\ LET cl == calls[c]
         q  == cl.ios[1]
         p  == prependTo(cl.path)
     IN IF q.err # NoErr
        THEN /\ calls' = [calls EXCEPT ![c] = Settle(cl, CatchENOENT(q.err, cl.path))]
             /\ UNCHANGED published
        ELSE IF cl.step = 1
        THEN /\ calls' = [calls EXCEPT ![c] =
                  IF ~p.ok THEN Settle(cl, CatchENOENT(p.err, cl.path))
                  ELSE Submit(cl, <<Req("writeFile", p.full, << >>, cl.contents)>>)]
             /\ UNCHANGED published
        ELSE /\ published' = publishFsEvent(published, "file-updated", cl.path, cl.id)
             /\ calls' = [calls EXCEPT ![c] = Settle(cl, Resolved)]
  /\ UNCHANGED <<fs, suppressFsEvents, _usingFsWatcher, watchers, watcher, nops>>

ThenUpdateFile(c) ==
  /\ calls[c].op = "updateFile" /\ calls[c].pc = "io" /\ AllDone(calls[c])
  /\ LET cl == calls[c]
         q  == cl.ios[1]
         p  == prependTo(cl.path)
     IN IF q.err # NoErr
        THEN /\ calls' = [calls EXCEPT ![c] = Settle(cl, CatchENOENT(q.err, cl.path))]
             /\ UNCHANGED published
        ELSE IF cl.step = 1
        THEN /\ calls' = [calls EXCEPT ![c] =
                  IF q.kind = "dir" THEN Settle(cl, Rejected(PathIsDirectory(cl.path)))
                  ELSE IF ~p.ok THEN Settle(cl, CatchENOENT(p.err, cl.path))
                  ELSE Submit(cl, <<Req("writeFile", p.full, << >>, cl.contents)>>)]
             /\ UNCHANGED published
        ELSE /\ published' = publishFsEvent(published, "file-updated", cl.path, cl.id)
             /\ calls' = [calls EXCEPT ![c] = Settle(cl, Resolved)]
  /\ UNCHANGED <<fs, suppressFsEvents, _usingFsWatcher, watchers, watcher, nops>>

(***************************************************************************)
(* OperationEngine: directory.js                                           *)
(***************************************************************************)
\* a catch that passes every error on
CatchNothing(err, dirpath) == Rejected(err)

\* the rejection of createDirectory's catch
CatchEEXIST(err, dirpath) ==
  IF err.code = "EEXIST" THEN Rejected(PathExists(dirpath)) ELSE Rejected(err)

\* exports.createDirectory(dirpath)
CallCreateDirectory(c, dirpath0) ==
  /\ Free(c)
  /\ LET dirpath == ensureStartingFwSlash(dirpath0)
         cl == [NewCall("createDirectory", dirpath0, EmptyStr, "", "") EXCEPT !.path = dirpath]
         p  == prependTo(dirpath)
     IN calls' = [calls EXCEPT ![c] =
          IF Falsy(dirpath0) THEN Settle(cl, Rejected(InvalidOption("dirpath", "required")))
          ELSE IF ~p.ok THEN Settle(cl, CatchEEXIST(p.err, dirpath))
          ELSE Submit(cl, <<Req("mkdir", p.full, << >>, "")>>)]
  /\ UNCHANGED <<fs, suppressFsEvents, _usingFsWatcher, watchers, watcher>>

ThenCreateDirectory(c) ==
  /\ calls[c].op = "createDirectory" /\ calls[c].pc = "io" /\ AllDone(calls[c])
  /\ LET cl == calls[c]
         q  == cl.ios[1]
     IN IF q.err # NoErr
        THEN /\ calls' = [calls EXCEPT ![c] = Settle(cl, CatchEEXIST(q.err, cl.path))]
             /\ UNCHANGED published
        ELSE /\ published' = publishFsEvent(published, "directory-created", cl.path, cl.id)
             /\ calls' = [calls EXCEPT ![c] = Settle(cl, Resolved)]
  /\ UNCHANGED <<fs, suppressFsEvents, _usingFsWatcher, watchers, watcher, nops>>

\* exports.createDirectory(dirpath) of the directory.js that probes the
\* path and then makes it with mkdirp
CallCreateDirectoryMkdirp(c, dirpath0) ==
  /\ Free(c)
  /\ LET dirpath == ensureStartingFwSlash(dirpath0)
         cl == [NewCall("createDirectory.mkdirp", dirpath0, EmptyStr, "", "") EXCEPT !.path = dirpath]
         p  == prependTo(dirpath)
     IN calls' = [calls EXCEPT ![c] =
          IF Falsy(dirpath0) THEN Settle(cl, Rejected(InvalidOption("dirpath", "required")))
          ELSE IF ~p.ok THEN Settle(cl, Rejected(p.err))
          ELSE Submit(cl, <<Req("stat", p.full, << >>, "")>>)]
  /\ UNCHANGED <<fs, suppressFsEvents, _usingFsWatcher, watchers, watcher>>

ThenCreateDirectoryMkdirp(c) ==
  /\ calls[c].op = "createDirectory.mkdirp" /\ calls[c].pc = "io" /\ AllDone(calls[c])
  /\ LET cl == calls[c]
         q  == cl.ios[1]
         ex == ExistsOutcome(q, "")
         p  == prependTo(cl.path)
     IN IF cl.step = 1
        THEN /\ calls' = [calls EXCEPT ![c] =
                  IF ex.st = "err" THEN Settle(cl, ex)
                  ELSE IF ex.b THEN Settle(cl, Rejected(PathExists(cl.path)))
                  ELSE IF ~p.ok THEN Settle(cl, Rejected(p.err))
                  ELSE Submit(cl, <<Req("mkdirp", p.full, << >>, "")>>)]
             /\ UNCHANGED published
        ELSE IF q.err # NoErr
        THEN /\ calls' = [calls EXCEPT ![c] = Settle(cl, Rejected(q.err))]
             /\ UNCHANGED published
        ELSE /\ published' = publishFsEvent(published, "directory-created", cl.path, cl.id)
             /\ calls' = [calls EXCEPT ![c] = Settle(cl, Resolved)]
  /\ UNCHANGED <<fs, suppressFsEvents, _usingFsWatcher, watchers, watcher, nops>>

\* a partial catch that knows not-found only
CatchReaddirENOENT(err, dirpath) ==
  IF err.code = "ENOENT" THEN Rejected(PathDoesNotExist(dirpath)) ELSE Rejected(err)

\* the rejection of readDirectory's partial catch, on readdir
CatchReaddir(err, dirpath) ==
  IF err.code = "ENOENT" THEN Rejected(PathDoesNotExist(dirpath))
  ELSE IF err.code = "ENOTDIR" THEN Rejected(PathIsNotDirectory(dirpath))
  ELSE Rejected(err)

\* exports.readDirectory(dirpath)
CallReadDirectory(c, dirpath0) ==
  /\ Free(c)
  /\ LET dirpath == trimTrailing(ensureStartingFwSlash(dirpath0))
         cl == [NewCall("readDirectory", dirpath0, EmptyStr, "", "") EXCEPT !.path = dirpath]
         p  == IF dirpath = EmptyStr
               THEN [ok |-> TRUE, full |-> rootValue, err |-> NoErr]
               ELSE prependTo(dirpath)
     IN calls' = [calls EXCEPT ![c] =
          IF dirpath0 = UndefinedArg
          THEN Settle(cl, Rejected(InvalidOption("dirpath", "required")))
          ELSE IF ~p.ok THEN Settle(cl, CatchReaddir(p.err, dirpath))
          ELSE Submit(cl, <<Req("readdir", p.full, << >>, "")>>)]
  /\ UNCHANGED <<fs, suppressFsEvents, _usingFsWatcher, watchers, watcher>>

\* a contentPath that is the basename alone
ContentPathBare(dirpath, contentBasename) == <<SLASH>> \o contentBasename

\* contentPath of a listed basename
ContentPath(dirpath, contentBasename) == dirpath \o <<SLASH>> \o contentBasename

\* a readDirectory that waits for every stat and lists whatever it got
ThenReadDirectoryLenient(c) ==
  /\ calls[c].op = "readDirectory" /\ calls[c].pc = "io"
  /\ LET cl  == calls[c]
         rej == 0
     IN IF cl.step = 1
        THEN /\ AllDone(cl)
             /\ LET q    == cl.ios[1]
                    stat(i) == prependTo(ContentPath(cl.path, q.list[i]))
                    bad  == { i \in 1..Len(q.list) : ~stat(i).ok }
                IN calls' = [calls EXCEPT ![c] =
                     IF q.err # NoErr THEN Settle(cl, CatchReaddir(q.err, cl.path))
                     ELSE IF q.list = << >> THEN Settle(cl, Resolved)
                     ELSE IF bad # {} THEN Settle(cl, Rejected(stat(CHOOSE i \in bad : TRUE).err))
                     ELSE Submit([cl EXCEPT !.res.list = q.list],
                                 [i \in 1..Len(q.list) |-> Req("stat", stat(i).full, << >>, "")])]
        ELSE /\ rej # 0 \/ AllDone(cl)
             /\ calls' = [calls EXCEPT ![c] =
                  IF rej # 0 THEN Settle(cl, Rejected(cl.ios[rej].err))
                  ELSE Settle(cl, [Resolved EXCEPT !.list =
                         [i \in 1..Len(cl.ios) |->
                            [path        |-> ContentPath(cl.path, cl.res.list[i]),
                             basename    |-> cl.res.list[i],
                             isDirectory |-> cl.ios[i].kind = "dir",
                             isFile      |-> cl.ios[i].kind = "file"]]])]
  /\ UNCHANGED <<fs, published, suppressFsEvents, _usingFsWatcher, watchers, watcher, nops>>

\* exports.readDirectory: readdir, then one stat per listed name
ThenReadDirectory(c) ==
  /\ calls[c].op = "readDirectory" /\ calls[c].pc = "io"
  /\ LET cl  == calls[c]
         rej == FirstRejecting(cl, { i \in 1..Len(cl.ios) : cl.ios[i].done /\ cl.ios[i].err # NoErr })
     IN IF cl.step = 1
        THEN /\ AllDone(cl)
             /\ LET q    == cl.ios[1]
                    stat(i) == prependTo(ContentPath(cl.path, q.list[i]))
                    bad  == { i \in 1..Len(q.list) : ~stat(i).ok }
                IN calls' = [calls EXCEPT ![c] =
                     IF q.err # NoErr THEN Settle(cl, CatchReaddir(q.err, cl.path))
                     ELSE IF q.list = << >> THEN Settle(cl, Resolved)
                     ELSE IF bad # {} THEN Settle(cl, Rejected(stat(CHOOSE i \in bad : TRUE).err))
                     ELSE Submit([cl EXCEPT !.res.list = q.list],
                                 [i \in 1..Len(q.list) |-> Req("stat", stat(i).full, << >>, "")])]
        ELSE /\ rej # 0 \/ AllDone(cl)
             /\ calls' = [calls EXCEPT ![c] =
                  IF rej # 0 THEN Settle(cl, Rejected(cl.ios[rej].err))
                  ELSE Settle(cl, [Resolved EXCEPT !.list =
                         [i \in 1..Len(cl.ios) |->
                            [path        |-> ContentPath(cl.path, cl.res.list[i]),
                             basename    |-> cl.res.list[i],
                             isDirectory |-> cl.ios[i].kind = "dir",
                             isFile      |-> cl.ios[i].kind = "file"]]])]
  /\ UNCHANGED <<fs, published, suppressFsEvents, _usingFsWatcher, watchers, watcher, nops>>

(***************************************************************************)
(* The engine alone, one call at a time.  `published` holds the events of  *)
(* the call under observation: it is emptied when the next call starts.    *)
(***************************************************************************)
Client == "c1"

CallEngine(c) ==
  \/ \E p \in PathInputs \ {UndefinedArg} : CallStat(c, p)
  \/ \E p \in PathInputs, t \in TypeInputs : CallPathExists(c, p, t)
  \/ \E p \in PathInputs, d \in CreateContents : CallCreateFile(c, p, d)
  \/ \E p \in PathInputs : CallReadFile(c, p)
  \/ \E p \in PathInputs, d \in UpdateContents : CallUpdateFile(c, p, d)
  \/ \E p \in PathInputs : CallCreateDirectory(c, p)
  \/ \E p \in PathInputs : CallCreateDirectoryMkdirp(c, p)
  \/ \E p \in PathInputs : CallReadDirectory(c, p)
  \/ \E p \in MoveFromInputs, q \in MoveToInputs : CallMove(c, p, q)
  \/ \E p \in PathInputs : CallRemove(c, p)

ThenEngine(c) ==
  \/ ThenStat(c)
  \/ ThenPathExists(c)
  \/ ThenCreateFile(c)
  \/ ThenReadFile(c)
  \/ ThenUpdateFile(c)
  \/ ThenCreateDirectory(c)
  \/ ThenCreateDirectoryMkdirp(c)
  \/ ThenReadDirectory(c)
  \/ ThenMove(c)
  \/ ThenRemove(c)

\* the caller has taken the outcome of its call: the slot is free again
Return(c) ==
  /\ calls[c].pc = "done"
  /\ calls' = [calls EXCEPT ![c] = IdleCall]
  /\ UNCHANGED <<fs, published, suppressFsEvents, _usingFsWatcher, watchers, watcher, nops>>

Next ==
  \/ (nops' = nops /\ published' = << >> /\ CallEngine(Client))
  \/ \E i \in 1..3 : FsIo(Client, i)
  \/ ThenEngine(Client)
  \/ Return(Client)

Spec == Init /\ [][Next]_vars

TypeOK ==
  /\ \A c \in Slots : calls[c].pc \in {"idle", "io", "done"}
  /\ RootSegs \in DOMAIN fs

(***************************************************************************)
(* Calls in sequence: a caller creates a file and, once that call has      *)
(* settled, reads the file back or creates it again; then both outcomes    *)
(* are taken.                                                              *)
(***************************************************************************)
First == "c1"

Second == "c2"

\* the caller has taken the outcomes of the calls of the sequence
ReturnSeq ==
  /\ calls[First].pc = "done"
  /\ calls[Second].pc \in {"idle", "done"}
  /\ calls' = [c \in Slots |-> IdleCall]
  /\ UNCHANGED <<fs, published, suppressFsEvents, _usingFsWatcher, watchers, watcher, nops>>

NextSeq ==
  \/ (/\ nops' = nops /\ published' = << >>
      /\ \E p \in PathInputs, d \in CreateContents : CallCreateFile(First, p, d))
  \/ (/\ nops' = nops /\ published' = << >>
      /\ calls[First].pc = "done"
      /\ \/ \E p \in PathInputs : CallReadFile(Second, p)
         \/ \E p \in PathInputs, d \in CreateContents : CallCreateFile(Second, p, d))
  \/ \E c \in Slots, i \in 1..3 : FsIo(c, i)
  \/ \E c \in Slots : ThenCreateFile(c)
  \/ ThenReadFile(Second)
  \/ ReturnSeq

SpecSeq == Init /\ [][NextSeq]_vars

(***************************************************************************)
(* The engine on a filesystem that may refuse: any delegate may fail with  *)
(* a permission error, whatever the tree holds, and changes nothing then.  *)
(***************************************************************************)
FsIoDenied(c, i) ==
  /\ calls[c].pc = "io"
  /\ i \in 1..Len(calls[c].ios)
  /\ ~calls[c].ios[i].done
  /\ calls' = [calls EXCEPT ![c].ios[i] = [@ EXCEPT !.done = TRUE, !.err = FsError("EACCES")],
                            ![c].order = Append(@, i)]
  /\ UNCHANGED <<fs, published, suppressFsEvents, _usingFsWatcher, watchers, watcher, nops>>

NextDenied ==
  \/ (nops' = nops /\ published' = << >> /\ CallEngine(Client))
  \/ \E i \in 1..3 : FsIo(Client, i)
  \/ \E i \in 1..3 : FsIoDenied(Client, i)
  \/ ThenEngine(Client)
  \/ Return(Client)

SpecDenied == Init /\ [][NextDenied]_vars

(***************************************************************************)
(* Reads only: pathExists by First, then one of the four reads by Second,  *)
(* with no mutation anywhere.  Nothing is reset between the calls.         *)
(***************************************************************************)
CallReads(c) ==
  \/ \E p \in PathInputs \ {UndefinedArg} : CallStat(c, p)
  \/ \E p \in PathInputs, t \in TypeInputs : CallPathExists(c, p, t)
  \/ \E p \in PathInputs : CallReadFile(c, p)
  \/ \E p \in PathInputs : CallReadDirectory(c, p)

NextReads ==
  \/ (/\ nops' = nops /\ UNCHANGED published
      /\ calls[Second].pc = "idle"
      /\ \E p \in PathInputs, t \in TypeInputs : CallPathExists(First, p, t))
  \/ (/\ nops' = nops /\ UNCHANGED published
      /\ calls[First].pc = "done"
      /\ CallReads(Second))
  \/ \E c \in Slots, i \in 1..3 : FsIo(c, i)
  \/ \E c \in Slots : ThenPathExists(c)
  \/ ThenStat(Second)
  \/ ThenReadFile(Second)
  \/ ThenReadDirectory(Second)
  \/ ReturnSeq

SpecReads == Init /\ [][NextReads]_vars

(***************************************************************************)
(* Calls that race: while one caller moves, another creates or removes     *)
(* nodes; no call waits for another.                                       *)
(***************************************************************************)
RacePaths == { <<"/", "a">>, <<"/", "a", "b", "/", "b">> }

NextRace ==
  \/ (/\ nops' = nops /\ published' = << >>
      /\ calls[Second].pc = "idle"
      /\ \E p \in MoveFromInputs, q \in MoveToInputs : CallMove(First, p, q))
  \/ (/\ nops' = nops /\ UNCHANGED published
      /\ calls[First].pc = "io"
      /\ \/ \E p \in RacePaths : CallCreateFile(Second, p, "x")
         \/ \E p \in RacePaths : CallRemove(Second, p))
  \/ \E c \in Slots, i \in 1..2 : FsIo(c, i)
  \/ ThenMove(First)
  \/ ThenCreateFile(Second)
  \/ ThenRemove(Second)
  \/ ReturnSeq

SpecRace == Init /\ [][NextRace]_vars

(***************************************************************************)
(* Two calls in flight: a second caller starts any call while the first    *)
(* caller's call is still waiting for the filesystem.  Neither call knows  *)
(* of the other; their filesystem steps interleave freely.                 *)
(***************************************************************************)
PairPaths == { <<"/", "a">>, <<"/", "a", "/", "b">> }

PairDirs == { <<"/">>, <<"/", "a">> }

CallPairFirst ==
  \/ \E p \in PairPaths : CallCreateFile(First, p, "x")
  \/ \E p \in PairPaths : CallUpdateFile(First, p, "x")
  \/ \E p \in PairPaths : CallMove(First, p, <<"/", "c">>)
  \/ \E p \in PairDirs : CallReadDirectory(First, p)

CallPairSecond ==
  \/ (/\ calls[First].op = "createFile"
      /\ CallCreateFile(Second, calls[First].arg, ""))
  \/ (/\ calls[First].op = "updateFile"
      /\ CallRemove(Second, calls[First].arg))
  \/ (/\ calls[First].op = "move"
      /\ CallMove(Second, calls[First].arg, <<"/", "d">>))
  \/ (/\ calls[First].op = "readDirectory"
      /\ \E p \in PairPaths : CallRemove(Second, p))

NextPair ==
  \/ (/\ nops' = nops /\ published' = << >>
      /\ calls[Second].pc = "idle"
      /\ CallPairFirst)
  \/ (/\ nops' = nops /\ UNCHANGED published
      /\ calls[First].pc = "io"
      /\ CallPairSecond)
  \/ \E c \in Slots, i \in 1..3 : FsIo(c, i)
  \/ \E c \in Slots : ThenCreateFile(c)
  \/ ThenUpdateFile(First)
  \/ ThenRemove(Second)
  \/ \E c \in Slots : ThenMove(c)
  \/ ThenReadDirectory(First)
  \/ ReturnSeq

SpecPair == Init /\ [][NextPair]_vars

(***************************************************************************)
(* OperationEngine on vroot, with the tree watcher: index.js and file.js   *)
(* of the fs-watching version                                              *)
(***************************************************************************)
\* the paths given to the API while a watcher may run
WatchPathInputs == {
  <<"/", "a">>,
  <<"a">>,
  <<"/", "a", "/", "b">>,
  <<".", ".", "/", "o">> }

\* vfs.buildFullRootPath(p), also the resolution inside vfs.stat and
\* vfs.writeFile
buildFullRootPath(p) == prependTo(p)

\* the one watcher the instance points to is ready and no other is open
WatcherActive ==
  /\ _usingFsWatcher
  /\ watcher # 0
  /\ watchers[watcher].status = "ready"
  /\ \A w \in WatcherIds \ {watcher} : watchers[w].status = "none"

\* every raw change has been handled by the watchers
Quiescent == \A w \in WatcherIds : watchers[w].pending = << >>

\* EventEmitter.emit
emit(log, eventName, path, src, id, node) ==
  Append(log, Event(eventName, path, src, id, node))

\* HFs.prototype._emitFsEvent: the log after the call
_emitFsEventAlways(log, eventName, path, id) ==
  emit(log, eventName, path, "engine", id, JoinRoot(path))

_emitFsEvent(log, eventName, path, id) ==
  IF ~_usingFsWatcher THEN emit(log, eventName, path, "engine", id, JoinRoot(path))
  ELSE log

\* the catch of move, remove and updateFile: an FsError of code ENOENT
\* becomes PathDoesNotExist, every other error is passed on
CatchFsError(err, path) ==
  IF err.name = "Error" /\ err.code = "ENOENT" THEN Rejected(PathDoesNotExist(path))
  ELSE Rejected(err)

NewCallVfs(op, arg, arg2, contents, path) ==
  [NewCall(op, arg, arg2, contents, "") EXCEPT !.path = path, !.wa = WatcherActive]

\* exports.createFile(filepath, contents), fs-watching version
CallCreateFileVfs(c, filepath0, contents0) ==
  /\ Free(c)
  /\ LET filepath == ensureStartingFwSlash(filepath0)
         contents == IF contents0 = UndefinedContents THEN "" ELSE contents0
         cl == NewCallVfs("vfs.createFile", filepath0, EmptyStr, contents, filepath)
         p  == buildFullRootPath(filepath)
     IN calls' = [calls EXCEPT ![c] =
          IF Falsy(filepath0) THEN Settle(cl, Rejected(InvalidOption("filepath", "required")))
          ELSE IF ~p.ok THEN Settle(cl, Rejected(p.err))
          ELSE Submit([cl EXCEPT !.full = p.full], <<Req("stat", p.full, << >>, "")>>)]
  /\ UNCHANGED <<fs, suppressFsEvents, _usingFsWatcher, watchers, watcher>>

ThenCreateFileVfs(c) ==
  /\ calls[c].op = "vfs.createFile" /\ calls[c].pc = "io" /\ AllDone(calls[c])
  /\ LET cl == calls[c]
         q  == cl.ios[1]
         ex == ExistsOutcome(q, "")
     IN IF cl.step = 1
        THEN /\ calls' = [calls EXCEPT ![c] =
                  IF ex.st = "err" THEN Settle(cl, ex)
                  ELSE IF ex.b THEN Settle(cl, Rejected(PathExists(cl.path)))
                  ELSE Submit(cl, <<Req("writeFile", cl.full, << >>, cl.contents)>>)]
             /\ UNCHANGED published
        ELSE IF q.err # NoErr
        THEN /\ calls' = [calls EXCEPT ![c] = Settle(cl, Rejected(q.err))]
             /\ UNCHANGED published
        ELSE /\ published' = _emitFsEvent(published, "file-created", cl.path, cl.id)
             /\ calls' = [calls EXCEPT ![c] = Settle(cl, Resolved)]
  /\ UNCHANGED <<fs, suppressFsEvents, _usingFsWatcher, watchers, watcher, nops>>

\* exports.updateFile(filepath, contents), fs-watching version
CallUpdateFileVfs(c, filepath0, contents) ==
  /\ Free(c)
  /\ LET filepath == ensureStartingFwSlash(filepath0)
         cl == NewCallVfs("vfs.updateFile", filepath0, EmptyStr, contents, filepath)
         p  == buildFullRootPath(filepath)
     IN calls' = [calls EXCEPT ![c] =
          IF Falsy(filepath0) THEN Settle(cl, Rejected(InvalidOption("filepath", "required")))
          ELSE IF contents = UndefinedContents
               THEN Settle(cl, Rejected(InvalidOption("contents", "required")))
          ELSE IF ~p.ok THEN Settle(cl, CatchFsError(p.err, filepath))
          ELSE Submit([cl EXCEPT !.full = p.full], <<Req("stat", p.full, << >>, "")>>)]
  /\ UNCHANGED <<fs, suppressFsEvents, _usingFsWatcher, watchers, watcher>>

ThenUpdateFileVfs(c) ==
  /\ calls[c].op = "vfs.updateFile" /\ calls[c].pc = "io" /\ AllDone(calls[c])
  /\ LET cl == calls[c]
         q  == cl.ios[1]
     IN IF cl.step = 1
        THEN /\ calls' = [calls EXCEPT ![c] =
                  IF q.err # NoErr THEN Settle(cl, CatchFsError(q.err, cl.path))
                  ELSE IF q.kind = "dir" THEN Settle(cl, Rejected(PathIsDirectory(cl.path)))
                  ELSE Submit(cl, <<Req("writeFile", cl.full, << >>, cl.contents)>>)]
             /\ UNCHANGED published
        ELSE IF q.err # NoErr
        THEN /\ calls' = [calls EXCEPT ![c] = Settle(cl, Rejected(q.err))]
             /\ UNCHANGED published
        ELSE /\ published' = emit(published, "file-updated", cl.path, "engine", cl.id, JoinRoot(cl.path))
             /\ calls' = [calls EXCEPT ![c] = Settle(cl, Resolved)]
  /\ UNCHANGED <<fs, suppressFsEvents, _usingFsWatcher, watchers, watcher, nops>>

\* HFs.prototype.remove(path), fs-watching version
CallRemoveVfs(c, path0) ==
  /\ Free(c)
  /\ LET path == ensureStartingFwSlash(path0)
         cl   == NewCallVfs("vfs.remove", path0, EmptyStr, "", path)
         p    == buildFullRootPath(path)
     IN calls' = [calls EXCEPT ![c] =
          IF Falsy(path0) THEN Settle(cl, Rejected(InvalidOption("path", "required")))
          ELSE IF ~p.ok THEN Settle(cl, CatchFsError(p.err, path))
          ELSE Submit([cl EXCEPT !.full = p.full], <<Req("stat", p.full, << >>, "")>>)]
  /\ UNCHANGED <<fs, suppressFsEvents, _usingFsWatcher, watchers, watcher>>

ThenRemoveVfs(c) ==
  /\ calls[c].op = "vfs.remove" /\ calls[c].pc = "io" /\ AllDone(calls[c])
  /\ LET cl == calls[c]
         q  == cl.ios[1]
     IN IF q.err # NoErr
        THEN /\ calls' = [calls EXCEPT ![c] = Settle(cl, CatchFsError(q.err, cl.path))]
             /\ UNCHANGED published
        ELSE IF cl.step = 1
        THEN /\ calls' = [calls EXCEPT ![c] =
                  Submit([cl EXCEPT !.kind = IF q.kind = "dir" THEN "directory" ELSE "file"],
                         <<Req("rimraf", cl.full, << >>, "")>>)]
             /\ UNCHANGED published
        ELSE /\ published' = _emitFsEvent(published,
                  IF cl.kind = "directory" THEN "directory-removed" ELSE "file-removed",
                  cl.path, cl.id)
             /\ calls' = [calls EXCEPT ![c] = Settle(cl, Resolved)]
  /\ UNCHANGED <<fs, suppressFsEvents, _usingFsWatcher, watchers, watcher, nops>>

\* HFs.prototype.move(fromPath, toPath), fs-watching version
CallMoveVfs(c, from0, to0) ==
  /\ Free(c)
  /\ LET fromPath == ensureStartingFwSlash(from0)
         toPath   == ensureStartingFwSlash(to0)
         cl == [NewCallVfs("vfs.move", from0, to0, "", fromPath) EXCEPT !.toPath = toPath]
         pf == buildFullRootPath(fromPath)
         pt == buildFullRootPath(toPath)
     IN calls' = [calls EXCEPT ![c] =
          IF Falsy(from0) THEN Settle(cl, Rejected(InvalidOption("fromPath", "required")))
          ELSE IF Falsy(to0) THEN Settle(cl, Rejected(InvalidOption("toPath", "required")))
          ELSE IF StartsWith(to0, from0)
               THEN Settle(cl, Rejected(InvalidOption("toPath", "invalidPath")))
          ELSE IF ~pf.ok THEN Settle(cl, Rejected(pf.err))
          ELSE IF ~pt.ok THEN Settle(cl, Rejected(pt.err))
          ELSE Submit([cl EXCEPT !.full = pf.full, !.fullTo = pt.full],
                      <<Req("stat", pf.full, << >>, ""), Req("stat", pt.full, << >>, "")>>)]
  /\ UNCHANGED <<fs, suppressFsEvents, _usingFsWatcher, watchers, watcher>>

ThenMoveVfs(c) ==
  /\ calls[c].op = "vfs.move" /\ calls[c].pc = "io"
  /\ LET cl  == calls[c]
         rej == FirstRejecting(cl, { i \in 1..Len(cl.ios) : MoveProbeRejects(cl, i) })
         created == IF cl.kind = "directory" THEN "directory-created" ELSE "file-created"
         removed == IF cl.kind = "directory" THEN "directory-removed" ELSE "file-removed"
     IN IF cl.step = 1
        THEN /\ rej # 0 \/ AllDone(cl)
             /\ calls' = [calls EXCEPT ![c] =
                  IF rej # 0 THEN Settle(cl, CatchFsError(cl.ios[rej].err, cl.path))
                  ELSE IF cl.ios[2].err = NoErr THEN Settle(cl, Rejected(PathExists(cl.toPath)))
                  ELSE Submit([cl EXCEPT !.kind = IF cl.ios[1].kind = "dir" THEN "directory" ELSE "file"],
                              <<Req("cpr", cl.full, cl.fullTo, "")>>)]
             /\ UNCHANGED published
        ELSE /\ AllDone(cl)
             /\ IF cl.ios[1].err # NoErr
                THEN /\ calls' = [calls EXCEPT ![c] = Settle(cl, Rejected(cl.ios[1].err))]
                     /\ UNCHANGED published
                ELSE IF cl.step = 2
                THEN /\ published' = _emitFsEvent(published, created, cl.toPath, cl.id)
                     /\ calls' = [calls EXCEPT ![c] = Submit(cl, <<Req("rimraf", cl.full, << >>, "")>>)]
                ELSE /\ published' = _emitFsEvent(published, removed, cl.path, cl.id)
                     /\ calls' = [calls EXCEPT ![c] = Settle(cl, Resolved)]
  /\ UNCHANGED <<fs, suppressFsEvents, _usingFsWatcher, watchers, watcher, nops>>

(***************************************************************************)
(* WatchBridge: fs-watching.js on chokidar                                 *)
(***************************************************************************)
\* path.relative(from, to) on real paths
Relative(from, to) ==
  LET same == { k \in 0..Len(from) : k <= Len(to) /\ SubSeq(from, 1, k) = SubSeq(to, 1, k) }
      k    == CHOOSE m \in same : \A n \in same : n <= m
  IN [i \in 1..(Len(from) - k) |-> <<DOT, DOT>>] \o SubSeq(to, k + 1, Len(to))

\* exports._makeRelativePath(p)
_makeRelativePath(p) == <<SLASH>> \o JoinSegs(Relative(RootSegs, p))

\* the handlers of the raw events: the log after the handler has run
_handleFileAdd(log, filepath, src, id) ==
  emit(log, "file-created", _makeRelativePath(filepath), src, id, filepath)

_handleFileUnlinkAsUpdate(log, filepath, src, id) ==
  emit(log, "file-updated", _makeRelativePath(filepath), src, id, filepath)

_handleFileUnlink(log, filepath, src, id) ==
  emit(log, "file-removed", _makeRelativePath(filepath), src, id, filepath)

_handleFileChange(log, filepath, src, id) ==
  emit(log, "file-updated", _makeRelativePath(filepath), src, id, filepath)

_handleDirAdd(log, dirpath, src, id) ==
  emit(log, "directory-created", _makeRelativePath(dirpath), src, id, dirpath)

_handleDirUnlink(log, dirpath, src, id) ==
  emit(log, "directory-removed", _makeRelativePath(dirpath), src, id, dirpath)

\* the listeners attached in startWatcher's ready callback, by raw event
Listener(log, raw, src) ==
  CASE raw.ev = "add"       -> _handleFileAdd(log, raw.path, src, raw.id)
    [] raw.ev = "unlink"    -> _handleFileUnlink(log, raw.path, src, raw.id)
    [] raw.ev = "change"    -> _handleFileChange(log, raw.path, src, raw.id)
    [] raw.ev = "addDir"    -> _handleDirAdd(log, raw.path, src, raw.id)
    [] raw.ev = "unlinkDir" -> _handleDirUnlink(log, raw.path, src, raw.id)

RECURSIVE ListenAll(_, _, _)
ListenAll(log, raws, src) ==
  IF raws = << >> THEN log
  ELSE ListenAll(Listener(log, Head(raws), src), Tail(raws), src)

\* what chokidar's initial scan emits: add / addDir for every node it finds
ScanEvents(f) ==
  LET found == ByDepth({ n \in DOMAIN f : UnderRoot(n) })
  IN [i \in 1..Len(found) |-> [ev |-> AddEv(f[found[i]]), path |-> found[i], id |-> nops]]

\* a watcher with its listeners attached from the start
chokidarWatchListening ==
  [status |-> "scanning", attached |-> TRUE, resolved |-> FALSE, pending |-> << >>]

\* chokidar.watch(root): a watcher that scans, nothing listening yet
chokidarWatch ==
  [status |-> "scanning", attached |-> FALSE, resolved |-> FALSE, pending |-> << >>]

\* a start or a stop of the watcher ends the watch of the calls in flight
Disturbed == [c \in Slots |-> [calls[c] EXCEPT !.wa = FALSE]]

\* exports.startWatcher(), up to the return of the promise
startWatcher ==
  /\ \E w \in WatcherIds :
       /\ watchers[w].status = "none"
       /\ \A v \in WatcherIds : watchers[v].status = "none" => w <= v
       /\ watchers' = [watchers EXCEPT ![w] = chokidarWatch]
       /\ watcher' = w
  /\ _usingFsWatcher' = TRUE
  /\ calls' = Disturbed
  /\ UNCHANGED <<fs, published, suppressFsEvents, nops>>

\* watcher w ends its initial scan: what it found goes to the listeners it
\* has, then 'ready' fires: startWatcher's callback attaches the listeners and
\* resolves the promise
WatcherReady(w) ==
  /\ watchers[w].status = "scanning"
  /\ published' = IF watchers[w].attached
                  THEN ListenAll(published, ScanEvents(fs), "scan")
                  ELSE published
  /\ watchers' = [watchers EXCEPT ![w].status = "ready",
                                  ![w].attached = TRUE,
                                  ![w].resolved = TRUE]
  /\ UNCHANGED <<fs, calls, suppressFsEvents, _usingFsWatcher, watcher, nops>>

\* the raw changes not yet emitted: every open watcher holds an end of them
Backlog ==
  LET w == CHOOSE v \in WatcherIds :
             \A u \in WatcherIds : Len(watchers[u].pending) <= Len(watchers[v].pending)
  IN watchers[w].pending

Holding == { w \in WatcherIds : watchers[w].pending # << >> /\ watchers[w].pending = Backlog }

RECURSIVE EmitEach(_, _, _)
\* the watchers of W, by number, emit raw to the listeners they have
EmitEach(log, raw, W) ==
  IF W = {} THEN log
  ELSE LET w == CHOOSE v \in W : \A u \in W : v <= u
       IN EmitEach(IF watchers[w].attached THEN Listener(log, raw, "watcher") ELSE log,
                   raw, W \ {w})

\* the watchers emit the raw change noticed longest ago: every watcher that
\* holds it hands it to the listeners it has
WatcherEmit ==
  /\ Backlog # << >>
  /\ published' = EmitEach(published, Head(Backlog), Holding)
  /\ watchers' = [w \in WatcherIds |->
                    IF w \in Holding THEN [watchers[w] EXCEPT !.pending = Tail(@)]
                    ELSE watchers[w]]
  /\ UNCHANGED <<fs, calls, suppressFsEvents, _usingFsWatcher, watcher, nops>>

\* exports.destroyWatcher(): this.watcher.close() throws when no watcher
\* was ever started, after the flag is reset
destroyWatcher ==
  /\ _usingFsWatcher' = FALSE
  /\ watchers' = IF watcher = 0 THEN watchers
                 ELSE [watchers EXCEPT ![watcher] = NoWatcher]
  /\ calls' = Disturbed
  /\ UNCHANGED <<fs, published, suppressFsEvents, watcher, nops>>

\* what processes other than the program do to the tree
ExternalRequests == {
  Req("writeFile", R(<< <<"a">> >>), << >>, "x"),
  Req("writeFile", R(<< <<"a">>, <<"b">> >>), << >>, "x"),
  Req("mkdir", R(<< <<"a">> >>), << >>, ""),
  Req("rimraf", R(<< <<"a">> >>), << >>, "") }

\* an external process changes the tree, in one step
ExternalChange(c, q) ==
  /\ Free(c)
  /\ LET r == Delegate(fs, q)
     IN /\ r.err = NoErr
        /\ r.raw # << >>
        /\ fs' = r.fs
        /\ watchers' = Notify(watchers, r.raw, nops)
        /\ calls' = [calls EXCEPT ![c] =
             Settle([NewCallVfs("external", EmptyStr, EmptyStr, "", EmptyStr)
                       EXCEPT !.raw = r.raw], Resolved)]
  /\ UNCHANGED <<suppressFsEvents, _usingFsWatcher, watcher>>

(***************************************************************************)
(* The program with the watcher: one caller, the watcher's lifecycle and   *)
(* external processes.  A mutation starts when the watchers have handled   *)
(* the changes of the one before, and the log starts anew with it.         *)
(***************************************************************************)
CallWatched(c) ==
  \/ \E p \in WatchPathInputs : CallCreateFileVfs(c, p, "x")
  \/ \E p \in WatchPathInputs : CallUpdateFileVfs(c, p, "x")
  \/ \E p \in WatchPathInputs : CallRemoveVfs(c, p)
  \/ CallMoveVfs(c, <<"/", "a">>, <<"/", "b">>)

ThenWatched(c) ==
  \/ ThenCreateFileVfs(c)
  \/ ThenUpdateFileVfs(c)
  \/ ThenRemoveVfs(c)
  \/ ThenMoveVfs(c)

InitWatch == Init /\ suppressFsEvents = FALSE

NextWatch ==
  \/ (Quiescent /\ nops' = nops /\ published' = << >> /\ CallWatched(Client))
  \/ (Quiescent /\ nops' = nops /\ published' = << >> /\ \E q \in ExternalRequests : ExternalChange(Client, q))
  \/ \E i \in 1..2 : FsIo(Client, i)
  \/ ThenWatched(Client)
  \/ Return(Client)
  \/ startWatcher
  \/ \E w \in WatcherIds : WatcherReady(w)
  \/ WatcherEmit
  \/ destroyWatcher

SpecWatch == InitWatch /\ [][NextWatch]_vars

(***************************************************************************)
(* Properties                                                              *)
(***************************************************************************)
Done(c) == calls[c].pc = "done"

RejectedWith(c, name) == calls[c].res.st = "err" /\ calls[c].res.err.name = name

\* the path arguments of a call that the caller did give
GivenPaths(cl) ==
  { p \in {cl.arg} \cup (IF cl.op = "move" THEN {cl.arg2} ELSE {}) : ~Falsy(p) }

\* the argument designates a place that is not in the tree below Root
Escapes(p) == ~UnderRoot(JoinRoot(p))

EscapingCall(cl) ==
  /\ cl.op # ""
  /\ \E p \in GivenPaths(cl) : Escapes(p)

\* no required argument of the call is missing
AllGiven(cl) ==
  /\ GivenPaths(cl) = {cl.arg} \cup (IF cl.op = "move" THEN {cl.arg2} ELSE {})
  /\ cl.op = "updateFile" => cl.contents # UndefinedContents

HandedUnderRoot == \A c \in Slots : \A rp \in calls[c].handed : UnderRoot(rp)

C2_RootStays ==
  /\ IsDir(fs, RootSegs)
  /\ \A c \in Slots :
       (Done(c) /\ calls[c].op = "remove" /\ ~Falsy(calls[c].arg)
          /\ JoinRoot(calls[c].arg) = RootSegs)
       => RejectedWith(c, "IllegalPath")

\* remove('.') has been rejected
C2_Witness ==
  \E c \in Slots :
    /\ Done(c) /\ calls[c].op = "remove" /\ calls[c].arg = <<DOT>>
    /\ calls[c].res.st = "err"

(***************************************************************************)
(* Properties of the program with the watcher                              *)
(***************************************************************************)
Ok(c) == calls[c].res.st = "ok"

ApiMutations == {"vfs.createFile", "vfs.updateFile", "vfs.remove", "vfs.move"}

\* what a subscriber gets: the type of each event and its only field
Delivered == [i \in 1..Len(published) |-> [type |-> published[i].type, path |-> published[i].path]]

\* the call of c started with the one watcher ready, no watcher was started
\* or stopped since
Watched(c) == calls[c].wa /\ WatcherActive

\* C3: with the watcher active, a successful createFile(p) through the API
\* delivers exactly one event to the subscribers, file-created with path p
\* (p with its leading slash): never two, never one of another type, and
\* one once the watcher has handled the changes.
C3_OneFileCreated ==
  \A c \in Slots :
    (calls[c].op = "vfs.createFile" /\ Watched(c)) =>
       /\ Len(published) <= 1
       /\ \A i \in 1..Len(published) :
            Delivered[i] = [type |-> "file-created", path |-> calls[c].path]
       /\ (Done(c) /\ Ok(c) /\ Quiescent) => Len(published) = 1
       /\ (Done(c) /\ ~Ok(c)) => published = << >>

\* createFile('a') has succeeded under the watcher and its one event is out
C3_Witness ==
  \E c \in Slots :
    /\ calls[c].op = "vfs.createFile" /\ Watched(c)
    /\ calls[c].arg = <<"a">>
    /\ Done(c) /\ Ok(c) /\ Quiescent
    /\ Delivered = <<[type |-> "file-created", path |-> <<"/", "a">>]>>

\* C4 as stated: while the flag _usingFsWatcher is true, no step of an
\* operation of the engine publishes an event itself.
C4_AsStated ==
  [][(/\ Len(published') = Len(published) + 1
      /\ published'[Len(published')].src = "engine")
     => ~_usingFsWatcher]_vars

\* C5 as stated: in every state where the flag is true, the watcher of the
\* instance has signalled ready and its forwarding handlers are attached.
C5_AsStated ==
  _usingFsWatcher =>
    /\ watcher # 0
    /\ watchers[watcher].status = "ready"
    /\ watchers[watcher].attached

\* C6 as stated: whatever the interleaving with startWatcher and
\* destroyWatcher, once a successful mutation of the API is complete and the
\* watchers have handled every change, at least one event has reported it.
C6_AsStated ==
  \A c \in Slots :
    (calls[c].op \in ApiMutations /\ Done(c) /\ Ok(c) /\ Quiescent)
       => published # << >>

\* C7 as stated: no change of a node is delivered twice, i.e. no two events
\* of the log of a mutation have the same type and report the same node.
C7_AsStated ==
  \A i, j \in 1..Len(published) :
    (i < j) => ~(/\ published[i].type = published[j].type
                 /\ published[i].node = published[j].node)

\* the type of event a raw event of the watcher maps to
MappedType(ev) ==
  CASE ev = "add"       -> "file-created"
    [] ev = "unlink"    -> "file-removed"
    [] ev = "change"    -> "file-updated"
    [] ev = "addDir"    -> "directory-created"
    [] ev = "unlinkDir" -> "directory-removed"

\* the real path without the segments of Root, with a leading '/'
LogicalPath(rp) == <<SLASH>> \o JoinSegs(SubSeq(rp, Len(RootSegs) + 1, Len(rp)))

\* C8: with the watcher active, the nodes an external process creates,
\* removes or changes yield one event each, of the mapped type, with the
\* path relative to Root and a leading '/', and no other event; a recursive
\* removal yields one event per node removed.
C8_ExternalMapped ==
  \A c \in Slots :
    (calls[c].op = "external" /\ Watched(c)) =>
       /\ Len(published) <= Len(calls[c].raw)
       /\ \A i \in 1..Len(published) :
            Delivered[i] = [type |-> MappedType(calls[c].raw[i].ev),
                            path |-> LogicalPath(calls[c].raw[i].path)]
       /\ Quiescent => Len(published) = Len(calls[c].raw)

\* an external process has removed directory /a with file /a/b in it: the
\* two events are out
C8_Witness ==
  \E c \in Slots :
    /\ calls[c].op = "external" /\ Watched(c) /\ Quiescent
    /\ Delivered = <<[type |-> "file-removed", path |-> <<"/", "a", "/", "b">>],
                     [type |-> "directory-removed", path |-> <<"/", "a">>]>>

\* C9: a watcher has listeners and startWatcher's promise is resolved only
\* once its scan has signalled ready, and nothing the scan finds (the nodes
\* that exist when it runs) is ever published as an event.
C9_ReadyFirst ==
  /\ \A w \in WatcherIds :
       (watchers[w].attached \/ watchers[w].resolved) => watchers[w].status = "ready"
  /\ \A i \in 1..Len(published) : published[i].src # "scan"

\* a watcher started on a tree with /a in it is ready, startWatcher has
\* completed and no event is out
C9_Witness ==
  /\ fs \in InitTrees /\ Exists(fs, R(<< <<"a">> >>))
  /\ \E w \in WatcherIds : watchers[w].status = "ready" /\ watchers[w].resolved
  /\ published = << >>
  /\ calls[Client].op = ""

\* the text of the real root occurs in p
Reveals(p) ==
  \E i \in 1..Len(p) :
    /\ i + Len(RootStr) - 1 <= Len(p)
    /\ SubSeq(p, i, i + Len(RootStr) - 1) = RootStr

IsLogical(p) == StartsWith(p, <<SLASH>>) /\ ~Reveals(p)

PathErrors == {"PathExists", "PathDoesNotExist", "PathIsDirectory", "PathIsNotDirectory"}

\* C10: the path of every event published, by the engine or by the watcher,
\* starts with '/', is the path below Root of the node it reports and does
\* not contain the real root; so does the path of every PathExists,
\* PathDoesNotExist, PathIsDirectory and PathIsNotDirectory error.
C10_LogicalPaths ==
  /\ \A i \in 1..Len(published) :
       /\ IsLogical(published[i].path)
       /\ JoinRoot(published[i].path) = published[i].node
       /\ UnderRoot(published[i].node)
  /\ \A c \in Slots :
       (Done(c) /\ calls[c].res.st = "err" /\ calls[c].res.err.name \in PathErrors)
          => IsLogical(calls[c].res.err.path)

\* createFile('a') has published file-created{/a} itself, the watcher has
\* forwarded an event, updateFile('a') has failed with a path error
C10_Witness ==
  \E c \in Slots :
    /\ calls[c].arg = <<"a">> /\ Done(c)
    /\ \/ /\ Ok(c) /\ published # << >>
          /\ published[1].src = "engine" /\ published[1].path = <<"/", "a">>
       \/ /\ RejectedWith(c, "PathDoesNotExist")
          /\ calls[c].res.err.path = <<"/", "a">>

(***************************************************************************)
(* Properties of the operations of the engine                              *)
(***************************************************************************)
\* C11: createFile(p, c) on a path that does not exist, followed with no
\* mutation in between by readFile(p), gives exactly c back; c is the empty
\* string in the call when the contents were omitted.
C11_CreateThenRead ==
  LET w == calls[First]
      r == calls[Second]
  IN (/\ w.op = "createFile" /\ w.pc = "done" /\ w.res.st = "ok"
      /\ r.op = "readFile" /\ r.pc = "done"
      /\ r.path = w.path)
     => /\ r.res.st = "ok"
        /\ r.res.data = w.contents
        /\ fs[JoinRoot(w.path)] = FileNode(w.contents)

\* createFile('a', 'x') has succeeded and the readFile('/a') after it has
\* given 'x'
C11_Witness ==
  /\ calls[First].op = "createFile" /\ calls[First].res.st = "ok"
  /\ calls[First].arg = <<"a">> /\ calls[First].contents = "x"
  /\ calls[Second].op = "readFile" /\ calls[Second].pc = "done"
  /\ calls[Second].arg = <<"/", "a">>
  /\ calls[Second].res.data = "x"

\* the call made last
Latest == IF calls[Second].op # "" THEN Second ELSE First

\* the node below Root the call's path designated when the call started
Target(cl) == JoinRoot(cl.path)

Addressed(cl) == ~Falsy(cl.arg) /\ StrictlyUnder(Target(cl), RootSegs)

\* the call has changed nothing in the tree and published nothing
NoEffect(c) == fs = calls[c].fs0 /\ published = << >> /\ calls[c].raw = << >>

\* C12: createFile on a path below Root that holds a file or a directory
\* rejects with PathExists carrying the path with its leading slash, changes
\* nothing in the tree and publishes no event; the second of two createFile
\* calls in sequence on the same path fails so.
C12_CreateExisting ==
  /\ \A c \in Slots :
       (/\ calls[c].op = "createFile" /\ Done(c) /\ Addressed(calls[c])
        /\ Exists(calls[c].fs0, Target(calls[c])))
       => /\ calls[c].res = Rejected(PathExists(ensureStartingFwSlash(calls[c].arg)))
          /\ c = Latest => NoEffect(c)
  /\ (/\ calls[First].op = "createFile" /\ Ok(First)
      /\ calls[Second].op = "createFile" /\ Done(Second)
      /\ calls[Second].path = calls[First].path)
     => RejectedWith(Second, "PathExists")

\* createFile('/a') has succeeded and the createFile('/a') after it has
\* been rejected
C12_Witness ==
  /\ calls[First].op = "createFile" /\ Ok(First) /\ calls[First].arg = <<"/", "a">>
  /\ calls[Second].op = "createFile" /\ Done(Second) /\ calls[Second].arg = <<"/", "a">>
  /\ RejectedWith(Second, "PathExists")
  /\ published = << >>

\* both paths of a move designate nodes strictly below Root
MoveAddressed(cl) ==
  /\ ~Falsy(cl.arg) /\ ~Falsy(cl.arg2)
  /\ StrictlyUnder(JoinRoot(cl.path), RootSegs)
  /\ StrictlyUnder(JoinRoot(cl.toPath), RootSegs)

\* node b is node a or lies below it
Inside(b, a) == IsPrefixSegs(a, b)

\* what a successful move of cl leaves: nothing at fromPath, at toPath the
\* tree that was at fromPath, and the two events in order (none when the
\* instance was built with suppressFsEvents)
MovedAsStated(cl) ==
  LET from == JoinRoot(cl.path)
      to   == JoinRoot(cl.toPath)
      dir  == IsDir(cl.fs0, from)
  IN /\ Subtree(fs, from) = {}
     /\ Subtree(fs, to) = { Moved(n, from, to) : n \in Subtree(cl.fs0, from) }
     /\ \A n \in Subtree(cl.fs0, from) : fs[Moved(n, from, to)] = cl.fs0[n]
     /\ Delivered =
          IF suppressFsEvents THEN << >>
          ELSE <<[type |-> IF dir THEN "directory-created" ELSE "file-created", path |-> cl.toPath],
                 [type |-> IF dir THEN "directory-removed" ELSE "file-removed", path |-> cl.path]>>

\* C13 as stated: a move whose fromPath exists, whose toPath does not exist
\* and does not lie inside fromPath succeeds; afterwards nothing is at
\* fromPath, toPath holds what fromPath held and the two events of the kind
\* of the moved node are out, created(toPath) before removed(fromPath).
C13_AsStated ==
  \A c \in Slots :
    (/\ calls[c].op = "move" /\ Done(c) /\ MoveAddressed(calls[c])
     /\ Exists(calls[c].fs0, JoinRoot(calls[c].path))
     /\ ~Exists(calls[c].fs0, JoinRoot(calls[c].toPath))
     /\ ~Inside(JoinRoot(calls[c].toPath), JoinRoot(calls[c].path)))
    => /\ Ok(c)
       /\ MovedAsStated(calls[c])

\* C14 as stated: a move whose toPath lies inside fromPath rejects with
\* InvalidOption on option toPath, changes nothing in the tree and publishes
\* nothing.
C14_AsStated ==
  \A c \in Slots :
    (/\ calls[c].op = "move" /\ Done(c) /\ MoveAddressed(calls[c])
     /\ StrictlyUnder(JoinRoot(calls[c].toPath), JoinRoot(calls[c].path)))
    => /\ RejectedWith(c, "InvalidOption")
       /\ calls[c].res.err.option = "toPath"
       /\ NoEffect(c)

\* a move that passes the validation of its arguments
MoveProbed(cl) == MoveAddressed(cl) /\ ~_isPathWithin(cl.toPath, cl.path)

\* stat of the node fails with ENOENT: it is missing and so is none of its
\* ancestors a file
Missing(f, rp) == ~Exists(f, rp) /\ ~AncestorIsFile(f, rp)

RawAt(cl, evs) == { i \in 1..Len(cl.raw) : cl.raw[i].ev \in evs }

\* C16: in every execution of move, also with other calls racing, the
\* recursive delete of fromPath is started only when the recursive copy has
\* completed with success (toPath has been made by this call); a move whose
\* copy fails rejects and has deleted nothing.  (move starts its delegates
\* in three steps: the probes, 1, the copy, 2, the delete, 3.)
C16_CopyThenDelete ==
  \A c \in Slots :
    LET cl == calls[c]
    IN cl.op = "move" =>
         /\ cl.step > 2 =>
              /\ \E i \in RawAt(cl, {"add", "addDir"}) : cl.raw[i].path = JoinRoot(cl.toPath)
              /\ \A i \in RawAt(cl, {"unlink", "unlinkDir"}) :
                   \A j \in RawAt(cl, {"add", "addDir"}) : j < i
         /\ cl.step <= 2 => RawAt(cl, {"unlink", "unlinkDir"}) = {}
         /\ (Done(c) /\ cl.step <= 2) => cl.res.st = "err"
         /\ (Done(c) /\ cl.step = 2) => cl.raw = << >>

\* a move has been rejected because its copy failed (another call had made
\* toPath after the probe); fromPath is still there
C16_Witness ==
  /\ calls[First].op = "move" /\ Done(First) /\ calls[First].step = 2
  /\ calls[First].res.err.code = "EEXIST"
  /\ Exists(fs, JoinRoot(calls[First].path))

\* the tree f without the node rp and its descendants
Without(f, rp) == [n \in DOMAIN f \ Subtree(f, rp) |-> f[n]]

\* the one event the engine delivers for a mutation, none when suppressed
OneEvent(type, path) ==
  IF suppressFsEvents THEN << >> ELSE <<[type |-> type, path |-> path]>>

\* C17: remove(p) on a path below Root that exists resolves; the tree is
\* then the tree of before without p and its descendants, and unless events
\* are suppressed exactly one event has been published, directory-removed
\* if p was a directory and file-removed otherwise, with path p (with its
\* leading slash); there is no event for a descendant.
C17_RemoveExisting ==
  \A c \in Slots :
    LET cl == calls[c]
    IN (cl.op = "remove" /\ Done(c) /\ Addressed(cl) /\ Exists(cl.fs0, Target(cl))) =>
         /\ Ok(c)
         /\ fs = Without(cl.fs0, Target(cl))
         /\ Delivered = OneEvent(IF IsDir(cl.fs0, Target(cl)) THEN "directory-removed"
                                 ELSE "file-removed", cl.path)

\* remove('/a') of a directory that holds a node has resolved with its one
\* directory-removed event
C17_Witness ==
  \E c \in Slots :
    /\ calls[c].op = "remove" /\ Done(c) /\ Ok(c)
    /\ calls[c].arg = <<"/", "a">>
    /\ IsDir(calls[c].fs0, R(<< <<"a">> >>))
    /\ Cardinality(Subtree(calls[c].fs0, R(<< <<"a">> >>))) > 1
    /\ fs = Without(calls[c].fs0, R(<< <<"a">> >>))
    /\ Delivered = <<[type |-> "directory-removed", path |-> <<"/", "a">>]>>

\* C18 as stated: remove on a path below Root that does not exist rejects
\* with PathDoesNotExist carrying that path, changes nothing in the tree and
\* publishes no event.
C18_AsStated ==
  \A c \in Slots :
    LET cl == calls[c]
    IN (cl.op = "remove" /\ Done(c) /\ Addressed(cl) /\ ~Exists(cl.fs0, Target(cl))) =>
         (cl.res = Rejected(PathDoesNotExist(cl.path)) /\ NoEffect(c))

\* C18 (amended): remove on a path below Root that is missing with no file
\* among its ancestors rejects with PathDoesNotExist carrying that path;
\* when an ancestor of the path is a file, it rejects with the ENOTDIR error
\* of stat as it is.  In both cases nothing changes in the tree and no event
\* is published.
C18_RemoveMissing ==
  \A c \in Slots :
    LET cl == calls[c]
    IN (cl.op = "remove" /\ Done(c) /\ Addressed(cl)) =>
         /\ Missing(cl.fs0, Target(cl))
              => (cl.res = Rejected(PathDoesNotExist(cl.path)) /\ NoEffect(c))
         /\ AncestorIsFile(cl.fs0, Target(cl))
              => (cl.res = Rejected(FsError("ENOTDIR")) /\ NoEffect(c))

\* remove('/a/b') with /a a file has been rejected with ENOTDIR
C18_Witness ==
  \E c \in Slots :
    /\ calls[c].op = "remove" /\ Done(c)
    /\ calls[c].arg = <<"/", "a", "/", "b">>
    /\ IsFile(calls[c].fs0, R(<< <<"a">> >>))
    /\ calls[c].res = Rejected(FsError("ENOTDIR"))
    /\ NoEffect(c)

\* the tree f with the contents of the file rp replaced by data
Rewritten(f, rp, data) == [f EXCEPT ![rp] = FileNode(data)]

\* C19: updateFile(p, c) on a path below Root that holds a file, with c
\* given (the empty string included), resolves; the tree is then the tree
\* of before with the contents of p replaced by c and no other node
\* changed, and unless events are suppressed exactly one event has been
\* published, file-updated with path p (with its leading slash) as its only
\* field.
C19_UpdateExisting ==
  \A c \in Slots :
    LET cl == calls[c]
    IN (/\ cl.op = "updateFile" /\ Done(c) /\ Addressed(cl)
        /\ cl.contents # UndefinedContents
        /\ IsFile(cl.fs0, Target(cl))) =>
         /\ Ok(c)
         /\ fs = Rewritten(cl.fs0, Target(cl), cl.contents)
         /\ Delivered = OneEvent("file-updated", cl.path)

\* updateFile('/a', '') on a file with contents has resolved: the file is
\* empty and the one file-updated event is out
C19_Witness ==
  \E c \in Slots :
    /\ calls[c].op = "updateFile" /\ Done(c) /\ Ok(c)
    /\ calls[c].arg = <<"/", "a">> /\ calls[c].contents = ""
    /\ IsFile(calls[c].fs0, R(<< <<"a">> >>))
    /\ calls[c].fs0[R(<< <<"a">> >>)].data # ""
    /\ fs[R(<< <<"a">> >>)] = FileNode("")
    /\ Delivered = <<[type |-> "file-updated", path |-> <<"/", "a">>]>>

\* an updateFile call on a path below Root with contents given
UpdateAddressed(cl) ==
  cl.op = "updateFile" /\ Addressed(cl) /\ cl.contents # UndefinedContents

\* C20 as stated: updateFile on a path that does not exist rejects with
\* PathDoesNotExist, on a path that holds a directory with PathIsDirectory;
\* in both cases the tree is unchanged and no event is published.
C20_AsStated ==
  \A c \in Slots :
    LET cl == calls[c]
    IN (Done(c) /\ UpdateAddressed(cl)) =>
         /\ ~Exists(cl.fs0, Target(cl))
              => (cl.res = Rejected(PathDoesNotExist(cl.path)) /\ NoEffect(c))
         /\ IsDir(cl.fs0, Target(cl))
              => (cl.res = Rejected(PathIsDirectory(cl.path)) /\ NoEffect(c))

\* C20 (amended): updateFile on a path that is missing with no file among
\* its ancestors rejects with PathDoesNotExist; when an ancestor of the path
\* is a file, it rejects with the ENOTDIR error of stat as it is; on a path
\* that holds a directory it rejects with PathIsDirectory.  In each case no
\* file is created or changed and no event is published.
C20_UpdateRejections ==
  \A c \in Slots :
    LET cl == calls[c]
    IN (Done(c) /\ UpdateAddressed(cl)) =>
         /\ Missing(cl.fs0, Target(cl))
              => (cl.res = Rejected(PathDoesNotExist(cl.path)) /\ NoEffect(c))
         /\ AncestorIsFile(cl.fs0, Target(cl))
              => (cl.res = Rejected(FsError("ENOTDIR")) /\ NoEffect(c))
         /\ IsDir(cl.fs0, Target(cl))
              => (cl.res = Rejected(PathIsDirectory(cl.path)) /\ NoEffect(c))

\* updateFile('/a', 'x') with /a a directory has been rejected with
\* PathIsDirectory and has changed nothing
C20_Witness ==
  \E c \in Slots :
    /\ Done(c) /\ UpdateAddressed(calls[c])
    /\ calls[c].arg = <<"/", "a">> /\ calls[c].contents = "x"
    /\ IsDir(calls[c].fs0, R(<< <<"a">> >>))
    /\ calls[c].res = Rejected(PathIsDirectory(<<"/", "a">>))
    /\ NoEffect(c)

\* the two createDirectory of the sources: the one on fs.mkdir and the one
\* on pathExists and mkdirp
CreateDirectoryOps == {"createDirectory", "createDirectory.mkdirp"}

Deep(cl) ==
  /\ cl.op \in CreateDirectoryOps /\ Addressed(cl)
  /\ Missing(cl.fs0, Target(cl))
  /\ ~Exists(cl.fs0, Dirname(Target(cl)))

\* the tree f with directories at rp and at every missing level above it
WithDirectories(f, rp) ==
  [n \in DOMAIN f \cup Prefixes(rp) |-> IF n \in DOMAIN f THEN f[n] ELSE DirNode]

\* C23 as stated: createDirectory(p) with ancestors of p missing resolves;
\* the tree is then the tree of before with every missing level and p as
\* directories, and unless events are suppressed the one event
\* directory-created with path p has been published.
C23_AsStated ==
  \A c \in Slots :
    LET cl == calls[c]
    IN (Done(c) /\ Deep(cl)) =>
         /\ Ok(c)
         /\ fs = WithDirectories(cl.fs0, Target(cl))
         /\ Delivered = OneEvent("directory-created", cl.path)

\* the directory a readDirectory call lists: Root for the empty dirpath,
\* the node the dirpath designates otherwise
Listed(cl) == IF cl.path = EmptyStr THEN rootValue ELSE Target(cl)

\* a readDirectory call on Root or on a path below it
ListAddressed(cl) ==
  /\ cl.op = "readDirectory" /\ cl.arg # UndefinedArg
  /\ (cl.path = EmptyStr \/ StrictlyUnder(Target(cl), RootSegs))

\* the entry of child n of the directory listed by cl
EntryOf(cl, n) ==
  [path        |-> cl.path \o <<SLASH>> \o Basename(n),
   basename    |-> Basename(n),
   isDirectory |-> IsDir(cl.fs0, n),
   isFile      |-> IsFile(cl.fs0, n)]

\* C24: readDirectory(d) on an existing directory resolves with exactly one
\* entry per child of d, each with the child's name as basename, the
\* dirpath with its leading and without its trailing slash followed by '/'
\* and the basename as path, and exactly one of isDirectory and isFile
\* true; for the empty dirpath the directory listed is Root and the paths
\* are '/' and the basename.
C24_EntriesPerChild ==
  \A c \in Slots :
    LET cl   == calls[c]
        kids == Children(cl.fs0, Listed(cl))
        list == cl.res.list
    IN (Done(c) /\ ListAddressed(cl) /\ IsDir(cl.fs0, Listed(cl))) =>
         /\ Ok(c)
         /\ Len(list) = Cardinality(kids)
         /\ { list[i] : i \in 1..Len(list) } = { EntryOf(cl, n) : n \in kids }
         /\ \A i \in 1..Len(list) : list[i].isDirectory # list[i].isFile
         /\ cl.path = EmptyStr =>
              \A i \in 1..Len(list) : list[i].path = <<SLASH>> \o list[i].basename

\* readDirectory('') has listed a Root with two children, a file and a
\* directory
C24_Witness ==
  \E c \in Slots :
    /\ calls[c].op = "readDirectory" /\ Done(c) /\ Ok(c)
    /\ calls[c].arg = EmptyStr
    /\ Len(calls[c].res.list) = 2
    /\ \E i, j \in 1..2 : calls[c].res.list[i].isFile /\ calls[c].res.list[j].isDirectory

\* C25 as stated: readDirectory on a path below Root that does not exist
\* rejects with PathDoesNotExist, on a path that holds a file with
\* PathIsNotDirectory, both carrying the dirpath with its leading and
\* without its trailing slash.
C25_AsStated ==
  \A c \in Slots :
    LET cl == calls[c]
    IN (Done(c) /\ ListAddressed(cl) /\ cl.path # EmptyStr) =>
         /\ ~Exists(cl.fs0, Target(cl))
              => cl.res = Rejected(PathDoesNotExist(cl.path))
         /\ IsFile(cl.fs0, Target(cl))
              => cl.res = Rejected(PathIsNotDirectory(cl.path))

\* C25 (amended): readDirectory on a path below Root that is missing with
\* no file among its ancestors rejects with PathDoesNotExist; on a path that
\* holds a file, or is missing below a file, it rejects with
\* PathIsNotDirectory; both carry the dirpath with its leading and without
\* its trailing slash.
C25_ListRejections ==
  \A c \in Slots :
    LET cl == calls[c]
    IN (Done(c) /\ ListAddressed(cl) /\ cl.path # EmptyStr) =>
         /\ Missing(cl.fs0, Target(cl))
              => cl.res = Rejected(PathDoesNotExist(cl.path))
         /\ (IsFile(cl.fs0, Target(cl)) \/ AncestorIsFile(cl.fs0, Target(cl)))
              => cl.res = Rejected(PathIsNotDirectory(cl.path))

\* readDirectory('/a/b') with /a a file has been rejected with
\* PathIsNotDirectory('/a/b')
C25_Witness ==
  \E c \in Slots :
    /\ calls[c].op = "readDirectory" /\ Done(c)
    /\ calls[c].arg = <<"/", "a", "/", "b">>
    /\ IsFile(calls[c].fs0, R(<< <<"a">> >>))
    /\ calls[c].res = Rejected(PathIsNotDirectory(<<"/", "a", "/", "b">>))

\* C26 as stated: readFile on a path that does not exist rejects with
\* PathDoesNotExist, on a path that holds a directory with PathIsDirectory,
\* on a path that leaves Root with IllegalPath.
C26_AsStated ==
  \A c \in Slots :
    LET cl == calls[c]
    IN (cl.op = "readFile" /\ Done(c)) =>
         /\ (Addressed(cl) /\ ~Exists(cl.fs0, Target(cl)))
              => cl.res = Rejected(PathDoesNotExist(cl.path))
         /\ (Addressed(cl) /\ IsDir(cl.fs0, Target(cl)))
              => cl.res = Rejected(PathIsDirectory(cl.path))
         /\ EscapingCall(cl) => RejectedWith(c, "IllegalPath")

\* C26 (amended): readFile on a path below Root that is missing with no
\* file among its ancestors rejects with PathDoesNotExist; when an ancestor
\* of the path is a file, it rejects with the ENOTDIR error of the read as
\* it is; on a path that holds a directory it rejects with PathIsDirectory;
\* on a path that leaves Root it rejects with IllegalPath, whatever is or
\* is not at the place the path designates.
C26_ReadRejections ==
  \A c \in Slots :
    LET cl == calls[c]
    IN (cl.op = "readFile" /\ Done(c)) =>
         /\ (Addressed(cl) /\ Missing(cl.fs0, Target(cl)))
              => cl.res = Rejected(PathDoesNotExist(cl.path))
         /\ (Addressed(cl) /\ AncestorIsFile(cl.fs0, Target(cl)))
              => cl.res = Rejected(FsError("ENOTDIR"))
         /\ (Addressed(cl) /\ IsDir(cl.fs0, Target(cl)))
              => cl.res = Rejected(PathIsDirectory(cl.path))
         /\ EscapingCall(cl) => (RejectedWith(c, "IllegalPath") /\ cl.handed = {})

\* readFile('../o') of the directory next to Root has been rejected with
\* IllegalPath and nothing was handed to a delegate
C26_Witness ==
  \E c \in Slots :
    /\ calls[c].op = "readFile" /\ Done(c)
    /\ calls[c].arg = <<".", ".", "/", "o">>
    /\ EscapingCall(calls[c])
    /\ Target(calls[c]) = OutsideSegs
    /\ RejectedWith(c, "IllegalPath") /\ calls[c].handed = {}

\* C27: pathExists(p, type) resolves false when p is not found (stat fails
\* with ENOENT); when p exists it resolves true if no type is given, with
\* type 'directory' or 'file' true exactly when the node is of that kind,
\* and false for any other type; on every other error, the ENOTDIR of a
\* path below a file or the IllegalPath of a path that is not below Root,
\* it rejects with that error and does not resolve false.
C27_PathExists ==
  \A c \in Slots :
    LET cl == calls[c]
        rp == Target(cl)
    IN (cl.op = "pathExists" /\ Done(c) /\ ~Falsy(cl.arg)) =>
         /\ (Addressed(cl) /\ Missing(cl.fs0, rp))
              => cl.res = [Resolved EXCEPT !.b = FALSE]
         /\ (Addressed(cl) /\ Exists(cl.fs0, rp))
              => cl.res = [Resolved EXCEPT !.b =
                             \/ cl.type = ""
                             \/ cl.type = "directory" /\ IsDir(cl.fs0, rp)
                             \/ cl.type = "file" /\ IsFile(cl.fs0, rp)]
         /\ (Addressed(cl) /\ AncestorIsFile(cl.fs0, rp))
              => cl.res = Rejected(FsError("ENOTDIR"))
         /\ ~Addressed(cl) => cl.res = Rejected(IllegalPath(cl.path))

\* pathExists('/a/b', 'file') with /a a file has been rejected with ENOTDIR
C27_Witness ==
  \E c \in Slots :
    /\ calls[c].op = "pathExists" /\ Done(c)
    /\ calls[c].arg = <<"/", "a", "/", "b">> /\ calls[c].type = "file"
    /\ IsFile(calls[c].fs0, R(<< <<"a">> >>))
    /\ calls[c].res = Rejected(FsError("ENOTDIR"))

\* the four reads of the engine
ReadOps == {"stat", "pathExists", "readFile", "readDirectory"}

\* two pathExists calls with the same arguments have given the same outcome
SameAnswer ==
  (/\ calls[First].op = "pathExists" /\ Done(First)
   /\ calls[Second].op = "pathExists" /\ Done(Second)
   /\ calls[Second].arg = calls[First].arg
   /\ calls[Second].type = calls[First].type)
  => calls[Second].res = calls[First].res

\* C28: no step of pathExists, stat, readFile or readDirectory changes the
\* tree, the suppression flag or the watcher, or publishes an event, and no
\* delegate of theirs makes a change; two pathExists(P) calls with only
\* reads in between give the same outcome.
C28_ReadsOnly ==
  /\ [](SameAnswer /\ \A c \in Slots : calls[c].op \in ReadOps => calls[c].raw = << >>)
  /\ [][UNCHANGED <<fs, published, suppressFsEvents, _usingFsWatcher, watchers, watcher>>]_vars

\* pathExists('/a') has resolved true twice in sequence and nothing has
\* been published
C28_Witness ==
  /\ calls[First].op = "pathExists" /\ Done(First)
  /\ calls[Second].op = "pathExists" /\ Done(Second)
  /\ calls[First].arg = <<"/", "a">> /\ calls[Second].arg = <<"/", "a">>
  /\ calls[First].type = calls[Second].type
  /\ Ok(First) /\ calls[First].res.b /\ calls[Second].res.b
  /\ published = << >> /\ fs = calls[First].fs0

\* the operations of the interface, each of which validates its arguments
ValidatingOps ==
  {"createFile", "readFile", "updateFile", "createDirectory",
   "createDirectory.mkdirp", "readDirectory", "move", "remove", "pathExists"}

\* the first required option the call lacks, "" when it lacks none
FirstMissing(cl) ==
  IF cl.op \in {"createFile", "readFile", "updateFile"} /\ Falsy(cl.arg) THEN "filepath"
  ELSE IF cl.op = "updateFile" /\ cl.contents = UndefinedContents THEN "contents"
  ELSE IF cl.op \in CreateDirectoryOps /\ Falsy(cl.arg) THEN "dirpath"
  ELSE IF cl.op = "readDirectory" /\ cl.arg = UndefinedArg THEN "dirpath"
  ELSE IF cl.op \in {"remove", "pathExists"} /\ Falsy(cl.arg) THEN "path"
  ELSE IF cl.op = "move" /\ Falsy(cl.arg) THEN "fromPath"
  ELSE IF cl.op = "move" /\ Falsy(cl.arg2) THEN "toPath"
  ELSE ""

\* C29: a call of an operation that lacks a required argument (a missing or
\* empty path, filepath, dirpath, fromPath or toPath; undefined contents
\* for updateFile; a dirpath that is no string for readDirectory) rejects
\* with InvalidOption naming the first such option with kind 'required';
\* no delegate has been started, nothing was handed to one, the tree is
\* unchanged and no event is published.
C29_RequiredArguments ==
  \A c \in Slots :
    LET cl == calls[c]
    IN (cl.op \in ValidatingOps /\ FirstMissing(cl) # "") =>
         /\ Done(c)
         /\ cl.res = Rejected(InvalidOption(FirstMissing(cl), "required"))
         /\ cl.ios = << >> /\ cl.handed = {}
         /\ NoEffect(c)

\* updateFile('/a') without contents, on a file /a, has been rejected with
\* InvalidOption on contents and the file is as it was
C29_Witness ==
  \E c \in Slots :
    /\ calls[c].op = "updateFile" /\ Done(c)
    /\ calls[c].arg = <<"/", "a">> /\ calls[c].contents = UndefinedContents
    /\ IsFile(fs, R(<< <<"a">> >>))
    /\ calls[c].res = Rejected(InvalidOption("contents", "required"))
    /\ NoEffect(c)

\* the operation of call cl maps the error code of its failed delegate q
\* to an outcome of its own
MapsCode(cl, q) ==
  LET code == q.err.code
  IN CASE cl.op = "pathExists"  -> code = "ENOENT"
       [] cl.op \in {"createFile", "createDirectory.mkdirp"}
                                -> q.fn = "stat" /\ code = "ENOENT"
       [] cl.op = "readFile"    -> code \in {"ENOENT", "EISDIR"}
       [] cl.op \in {"updateFile", "remove", "move"}
                                -> code = "ENOENT"
       [] cl.op = "createDirectory" -> code = "EEXIST"
       [] cl.op = "readDirectory"   -> q.fn = "readdir" /\ code \in {"ENOENT", "ENOTDIR"}
       [] OTHER                 -> FALSE

\* the delegates of call cl that have failed
FailedIos(cl) == { i \in 1..Len(cl.ios) : cl.ios[i].done /\ cl.ios[i].err # NoErr }

\* those that have failed with a code the operation does not map
UnmappedIos(cl) == { i \in FailedIos(cl) : ~MapsCode(cl, cl.ios[i]) }

\* the step after a delegate of call c has failed with an unmapped code, as
\* C30 states it: nothing is published, the call starts no further
\* delegate, and when it settles it rejects with that error as it is
AfterFailureAsStated(c) ==
  LET cl == calls[c]
  IN (cl.pc = "io" /\ UnmappedIos(cl) # {}) =>
       /\ published' = published
       /\ calls'[c].pc \in {"io", "done"}
       /\ calls'[c].step = cl.step
       /\ calls'[c].pc = "done" =>
            \E i \in UnmappedIos(cl) : calls'[c].res = Rejected(cl.ios[i].err)

\* C30 as stated: once a delegate of a call has failed with an error code
\* its operation does not map, the call rejects with that error unchanged;
\* it neither resolves nor publishes an event afterwards.
C30_AsStated == [][\A c \in Slots : AfterFailureAsStated(c)]_vars

\* move's stat of fromPath has failed with ENOENT next to the unmapped
\* failure of its probe of toPath, and the call rejects with
\* PathDoesNotExist(fromPath)
FromPathMissingFirst(c) ==
  /\ calls[c].op = "move" /\ calls[c].step = 1
  /\ calls[c].ios[1].done /\ calls[c].ios[1].err.code = "ENOENT"
  /\ calls'[c].res = Rejected(PathDoesNotExist(calls[c].path))

\* the same step, with the one exception the code makes
AfterFailure(c) ==
  LET cl == calls[c]
  IN (cl.pc = "io" /\ UnmappedIos(cl) # {}) =>
       /\ published' = published
       /\ calls'[c].pc \in {"io", "done"}
       /\ calls'[c].step = cl.step
       /\ calls'[c].pc = "done" =>
            \/ \E i \in UnmappedIos(cl) : calls'[c].res = Rejected(cl.ios[i].err)
            \/ FromPathMissingFirst(c)

\* C30 (amended): once a delegate of a call has failed with an error code
\* its operation does not map (a permission error, or ENOTDIR where only
\* ENOENT is mapped), the call publishes nothing more, starts no further
\* delegate and rejects: with that error unchanged, or, when it is the
\* probe of move's toPath that failed so and the stat of fromPath has
\* failed with ENOENT before it, with PathDoesNotExist(fromPath).
C30_ErrorsPropagate == [][\A c \in Slots : AfterFailure(c)]_vars

\* move('/a/b', '/ab/b') has made its copy and published file-created, the
\* delete was refused and the call has rejected with the permission error
C30_Witness ==
  \E c \in Slots :
    /\ calls[c].op = "move" /\ Done(c)
    /\ calls[c].arg = <<"/", "a", "/", "b">>
    /\ calls[c].arg2 = <<"/", "a", "b", "/", "b">>
    /\ calls[c].res = Rejected(FsError("EACCES"))
    /\ Len(published) = 1
    /\ Exists(fs, JoinRoot(calls[c].path)) /\ Exists(fs, JoinRoot(calls[c].toPath))

\* the raw change an event of the engine reports
RawOf(type) ==
  CASE type = "file-created"      -> "add"
    [] type = "file-updated"      -> "change"
    [] type = "directory-created" -> "addDir"
    [] type = "file-removed"      -> "unlink"
    [] type = "directory-removed" -> "unlinkDir"
    [] OTHER                      -> ""

\* a delegate of call cl has completed the change event e reports
Durable(cl, e) ==
  \E k \in 1..Len(cl.raw) : cl.raw[k] = Raw(RawOf(e.type), e.node)

\* C31: within one call every event published reports a change that a
\* delegate of the call has completed before: file-created the write,
\* file-updated the overwrite, directory-created the making of the
\* directory, move's created event the copy and its removed event the
\* delete, remove's removed event the delete.
C31_PublishAfterMutation ==
  \A c \in Slots :
    calls[c].op # "" =>
      \A i \in 1..Len(published) :
        /\ published[i].id = calls[c].id
        /\ Durable(calls[c], published[i])

\* a move of the directory /a with its file is at its delete: the copy is
\* made, directory-created is out, and nothing is deleted yet
C31_Witness ==
  \E c \in Slots :
    /\ calls[c].op = "move" /\ calls[c].pc = "io" /\ calls[c].step = 3
    /\ ~calls[c].ios[1].done
    /\ Len(published) = 1 /\ published[1].type = "directory-created"
    /\ Durable(calls[c], published[1])
    /\ Cardinality(Subtree(fs, JoinRoot(calls[c].path))) > 1

\* the text ends with a '/' that is not its leading one
EndsWithSlash(p) == Len(p) > 1 /\ p[Len(p)] = SLASH

\* the LogicalPaths call c of a directory operation has given out: in its
\* events, in the entries it resolved with and in its error
PathsGivenOut(c) ==
  { published[i].path : i \in { j \in 1..Len(published) : published[j].id = calls[c].id } }
  \cup { calls[c].res.list[i].path : i \in 1..Len(calls[c].res.list) }
  \cup (IF calls[c].res.st = "err" THEN {calls[c].res.err.path} ELSE {})

\* C32 as stated: no path in the directory-created event of
\* createDirectory, in the entries of readDirectory or in the errors of
\* either ends with '/', whether or not the request path ended with one.
C32_AsStated ==
  \A c \in Slots :
    (calls[c].op \in CreateDirectoryOps \cup {"readDirectory"} /\ Done(c)) =>
      \A p \in PathsGivenOut(c) : ~EndsWithSlash(p)

\* the copy delegate of call cl is under way with its destination strictly
\* inside its source
CopiesIntoItself(cl) ==
  \E i \in 1..Len(cl.ios) :
    cl.ios[i].fn = "cpr" /\ StrictlyUnder(cl.ios[i].b, cl.ios[i].a)

\* C33 as stated: every move whose toPath designates a node strictly inside
\* fromPath, however the two paths are written, is rejected with
\* InvalidOption on option toPath with nothing handed to a delegate, and
\* the copy delegate is never started with a destination inside its source.
C33_AsStated ==
  \A c \in Slots :
    LET cl == calls[c]
    IN (cl.op = "move" /\ MoveAddressed(cl)) =>
         /\ ~CopiesIntoItself(cl)
         /\ (Done(c) /\ StrictlyUnder(JoinRoot(cl.toPath), JoinRoot(cl.path)))
              => (cl.res = Rejected(InvalidOption("toPath", "invalidPath")) /\ cl.handed = {})

\* C34 as stated: move rejects with InvalidOption on toPath of kind
\* invalidPath only if toPath designates a node strictly inside fromPath; a
\* toPath below a sibling whose name extends that of fromPath is not
\* rejected so.
C34_AsStated ==
  \A c \in Slots :
    LET cl == calls[c]
    IN (/\ cl.op = "move" /\ Done(c) /\ MoveAddressed(cl)
        /\ cl.res = Rejected(InvalidOption("toPath", "invalidPath")))
       => StrictlyUnder(JoinRoot(cl.toPath), JoinRoot(cl.path))

\* C35: of two createFile calls in flight on the same path, which did not
\* exist when either started, at most one succeeds and publishes
\* file-created; the other rejects with PathExists, and the file keeps the
\* contents written by the call that succeeded.
BothCreate ==
  /\ calls[First].op = "createFile" /\ calls[Second].op = "createFile"
  /\ Done(First) /\ Done(Second)
  /\ Target(calls[First]) = Target(calls[Second])
  /\ Missing(calls[First].fs0, Target(calls[First]))
  /\ Missing(calls[Second].fs0, Target(calls[Second]))

C35_AsStated ==
  BothCreate =>
    /\ ~(Ok(First) /\ Ok(Second))
    /\ \A c \in Slots : \A d \in Slots \ {c} :
         Ok(c) =>
           /\ calls[d].res.st = "err"
           /\ calls[d].res.err.name = "PathExists"
           /\ Exists(fs, Target(calls[c]))
           /\ fs[Target(calls[c])].data = calls[c].contents

\* C36: an updateFile(p, c) in flight together with a remove(p) never brings
\* p back: when remove has deleted p before updateFile writes, updateFile
\* rejects with PathDoesNotExist, publishes no file-updated event, and p
\* does not exist once both calls have settled.
UpdateAndRemove ==
  /\ calls[First].op = "updateFile" /\ calls[Second].op = "remove"
  /\ Done(First) /\ Done(Second)
  /\ Target(calls[First]) = Target(calls[Second])
  /\ Exists(calls[First].fs0, Target(calls[First]))
  /\ calls[First].fs0[Target(calls[First])].kind = "file"

Removed(cl) == \E j \in 1..Len(cl.raw) : cl.raw[j] = Raw("unlink", Target(cl))

BroughtBack(cl) == \E k \in 1..Len(cl.raw) : cl.raw[k] = Raw("add", Target(cl))

WroteInPlace(cl) == \E k \in 1..Len(cl.raw) : cl.raw[k] = Raw("change", Target(cl))

C36_AsStated ==
  UpdateAndRemove =>
    /\ ~BroughtBack(calls[First])
    /\ (Removed(calls[Second]) /\ ~WroteInPlace(calls[First])) =>
         /\ calls[First].res.st = "err"
         /\ calls[First].res.err.name = "PathDoesNotExist"
         /\ \A i \in 1..Len(published) : published[i].type # "file-updated"
    /\ Removed(calls[Second]) => ~Exists(fs, Target(calls[First]))

\* C37: of two moves in flight of the same existing fromPath to two
\* different free destinations, at most one succeeds, and once both have
\* settled the moved contents exist at exactly one destination.
BothMove ==
  /\ calls[First].op = "move" /\ calls[Second].op = "move"
  /\ Done(First) /\ Done(Second)
  /\ Target(calls[First]) = Target(calls[Second])
  /\ JoinRoot(calls[First].toPath) # JoinRoot(calls[Second].toPath)
  /\ \A c \in Slots :
       /\ Exists(calls[c].fs0, Target(calls[c]))
       /\ Missing(calls[c].fs0, JoinRoot(calls[c].toPath))

C37_AsStated ==
  BothMove =>
    /\ ~(Ok(First) /\ Ok(Second))
    /\ Cardinality({ c \in Slots : Exists(fs, JoinRoot(calls[c].toPath)) }) = 1

\* the per-child stats of readDirectory call cl that found no node: the
\* child was listed and has been removed since
GoneChildren(cl) ==
  { i \in 1..Len(cl.ios) : cl.ios[i].done /\ cl.ios[i].err = FsError("ENOENT") }

\* the step in which readDirectory call c settles after its per-child stats
SettlesListing(c) ==
  /\ calls[c].op = "readDirectory" /\ calls[c].pc = "io" /\ calls[c].step = 2
  /\ calls'[c].pc = "done"

\* C38: when a child listed by readDirectory has been removed before its
\* stat, the call rejects as a whole with the stat's raw not-found error,
\* not with PathDoesNotExist; it resolves only with one entry per listed
\* child, each from a stat that succeeded.
C38_ChildGone ==
  [][\A c \in Slots :
       SettlesListing(c) =>
         LET cl == calls[c]
             res == calls'[c].res
         IN /\ GoneChildren(cl) # {} =>
                 /\ res = Rejected(FsError("ENOENT"))
                 /\ res.err.name # "PathDoesNotExist"
            /\ res.st = "ok" =>
                 /\ \A i \in 1..Len(cl.ios) : cl.ios[i].done /\ cl.ios[i].err = NoErr
                 /\ Len(res.list) = Len(cl.ios)
                 /\ \A i \in 1..Len(res.list) :
                      /\ prependTo(res.list[i].path).full = cl.ios[i].a
                      /\ res.list[i].isDirectory # res.list[i].isFile]_vars

\* readDirectory of an existing directory has rejected with the raw
\* not-found error of a child's stat while remove has deleted a node
C38_Witness ==
  /\ calls[First].op = "readDirectory" /\ Done(First)
  /\ IsDir(calls[First].fs0, Listed(calls[First]))
  /\ calls[First].res = Rejected(FsError("ENOENT"))
  /\ calls[Second].op = "remove"
  /\ calls[Second].raw # << >>

\* C39 as stated: a call that has rejected has published no event.
C39_AsStated ==
  \A c \in Slots :
    (Done(c) /\ calls[c].res.st = "err") => published = << >>

\* call cl is a move whose copy has been made and whose delete has not
CopiedNotDeleted(cl) ==
  /\ cl.op = "move"
  /\ cl.step = 3
  /\ \E k \in 1..Len(cl.raw) : cl.raw[k].path = JoinRoot(cl.toPath)
  /\ \A k \in 1..Len(cl.raw) : cl.raw[k].ev \notin {"unlink", "unlinkDir"}

\* C39 (amended): a call that has rejected has published no event, except a
\* move whose copy was made and whose delete of fromPath failed: that call
\* has published its created event for toPath, and nothing else.
C39_RejectedPublishes ==
  \A c \in Slots :
    (Done(c) /\ calls[c].res.st = "err") =>
       IF CopiedNotDeleted(calls[c])
       THEN /\ Delivered = OneEvent(IF calls[c].kind = "directory"
                                    THEN "directory-created" ELSE "file-created",
                                    calls[c].toPath)
            /\ Exists(fs, JoinRoot(calls[c].toPath))
            /\ Exists(fs, JoinRoot(calls[c].path))
       ELSE published = << >>

\* the move of directory /a has copied it, published directory-created, and
\* rejected because the delete of /a was refused
C39_Witness ==
  \E c \in Slots :
    /\ calls[c].op = "move" /\ Done(c) /\ calls[c].res.st = "err"
    /\ CopiedNotDeleted(calls[c])
    /\ Len(published) = 1 /\ published[1].type = "directory-created"
    /\ IsDir(fs, JoinRoot(calls[c].path))

\* the events the engine itself publishes for a successful call cl of the
\* API: one for the node addressed, for a move one for toPath and then one
\* for fromPath
EngineEvents(cl) ==
  LET dir == cl.kind = "directory"
  IN CASE cl.op = "vfs.createFile" -> <<[type |-> "file-created", path |-> cl.path]>>
       [] cl.op = "vfs.updateFile" -> <<[type |-> "file-updated", path |-> cl.path]>>
       [] cl.op = "vfs.remove" ->
            <<[type |-> IF dir THEN "directory-removed" ELSE "file-removed", path |-> cl.path]>>
       [] cl.op = "vfs.move" ->
            <<[type |-> IF dir THEN "directory-created" ELSE "file-created", path |-> cl.toPath],
              [type |-> IF dir THEN "directory-removed" ELSE "file-removed", path |-> cl.path]>>
       [] OTHER -> << >>

\* the operations C40 names
ApiOps == {"vfs.createFile", "vfs.remove", "vfs.move"}

\* no watcher was ever started
NeverWatched == watcher = 0 /\ ~_usingFsWatcher

\* C40 as stated: a successful createFile, remove or move gives the
\* subscribers the same sequence of events whether the watcher is active or
\* not: the events the engine publishes when there is no watcher are the
\* events the watcher delivers when it is active.
C40_AsStated ==
  \A c \in Slots :
    (calls[c].op \in ApiOps /\ Done(c) /\ Ok(c) /\ Quiescent) =>
       /\ NeverWatched => Delivered = EngineEvents(calls[c])
       /\ Watched(c) => Delivered = EngineEvents(calls[c])

====
